---- MODULE Spec2Model ----
(***************************************************************************)
(* Model of the vault-secret-sync pipeline engine: the two-phase           *)
(* orchestrator of pkg/pipeline/pipeline.go (Run, executeMergePhase,       *)
(* executeSyncPhase, executeParallel, mergeTarget, syncTarget), the        *)
(* dependency graph of pkg/pipeline/graph.go, and the asynchronous sync    *)
(* registry / worker pool that the orchestrator triggers jobs on.          *)
(***************************************************************************)
EXTENDS Integers, Sequences, FiniteSets, TLC

(***************************************************************************)
(* Bounds and program constants                                            *)
(***************************************************************************)

\* largest value of Options.Parallelism and of pipeline.merge.parallel tried
MaxParallelism == 2

\* largest number of injected failures (failed triggers, failed S3 writes,
\* failed jobs) in one run
MaxFaults == 1

\* number of goroutines calling Run on one Pipeline
NumCallers == 2

\* longest import list of a target in the configurations BuildGraph is given
MaxImports == 2

\* longest list of requested targets given to IncludeDependencies
MaxRequested == 2

\* longest sequence inside a payload given to DeepMerge
MaxLen == 2

\* number of secret paths the two inputs of DiffSecrets are drawn over
MaxPaths == 3

\* number of target diffs a pipeline diff is built from
MaxDiffTargets == 2

\* number of times the same payload is written to a store
MaxWrites == 2

\* most accounts one discoverer of a dynamic target returns
MaxFound == 1

\* most items in an external account list
MaxItems == 2

\* pipeline.go:238 and pipeline.go:283: fallback when no limit is configured
DefaultParallelism == 4

(***************************************************************************)
(* Names.  Sources and targets are identified by name; sort.Strings and    *)
(* the (level, name) comparators order names lexicographically.            *)
(***************************************************************************)

SourceNames == {"s1", "s2"}

TargetNames == {"a", "b", "c"}

NameRank == [n \in SourceNames \cup TargetNames |->
               CASE n = "a" -> 1 [] n = "b" -> 2 [] n = "c" -> 3
                 [] n = "s1" -> 4 [] n = "s2" -> 5]

NameLess(x, y) == NameRank[x] < NameRank[y]

(***************************************************************************)
(* Configurations (Config of the pipeline package).  imports is            *)
(* Config.Targets[name].Imports in declaration order; vault says whether   *)
(* MergeStore.Vault is set, s3Store whether Pipeline.s3Store is set;       *)
(* mergeParallel is Pipeline.Merge.Parallel, syncParallel is               *)
(* Pipeline.Sync.Parallel, deleteOrphans is Pipeline.Sync.DeleteOrphans.   *)
(***************************************************************************)

\* a imports two sources, b inherits from a
ChainImports == [t \in {"a", "b"} |->
                   CASE t = "a" -> <<"s1", "s2">>
                     [] t = "b" -> <<"a">>]

\* as ChainImports, with a third target c at the level of a
WideImports == [t \in TargetNames |->
                  CASE t = "a" -> <<"s1", "s2">>
                    [] t = "b" -> <<"a">>
                    [] t = "c" -> <<"s1">>]

Configs ==
  { [imports |-> ChainImports, vault |-> TRUE, s3Store |-> FALSE,
     mergeParallel |-> 1, syncParallel |-> MaxParallelism,
     deleteOrphans |-> FALSE],
    [imports |-> ChainImports, vault |-> TRUE, s3Store |-> FALSE,
     mergeParallel |-> MaxParallelism, syncParallel |-> 1,
     deleteOrphans |-> TRUE],
    [imports |-> WideImports, vault |-> FALSE, s3Store |-> TRUE,
     mergeParallel |-> 0, syncParallel |-> 0, deleteOrphans |-> FALSE] }

Operations == {"merge", "sync", "pipeline"}

\* Options.Targets values tried: empty (all targets) or one named target
RequestedLists == { << >>, <<"b">> }

(***************************************************************************)
(* Sequence helpers                                                        *)
(***************************************************************************)

Range(s) == { s[k] : k \in 1..Len(s) }

Max(S) == CHOOSE x \in S : \A y \in S : y <= x

(***************************************************************************)
(* Dependency graph (graph.go)                                             *)
(***************************************************************************)

\* Node.Type
IsTarget(imports, n) == n \in DOMAIN imports

\* calcLevel: sources are level 0; a target is 1 + the largest level of its
\* dependencies, with maxDepLevel starting at -1
RECURSIVE calcLevel(_, _)
calcLevel(imports, n) ==
  IF ~IsTarget(imports, n) THEN 0
  ELSE LET deps == Range(imports[n])
           maxDepLevel == IF deps = {} THEN -1
                          ELSE Max({ calcLevel(imports, d) : d \in deps })
       IN  maxDepLevel + 1

\* the comparator of TopologicalOrder and IncludeDependencies: by level, then name
LevelNameLess(imports, x, y) ==
  LET lx == calcLevel(imports, x)
      ly == calcLevel(imports, y)
  IN  IF lx # ly THEN lx < ly ELSE NameLess(x, y)

\* sort.Slice with the (level, name) comparator
RECURSIVE SortByLevelName(_, _)
SortByLevelName(imports, S) ==
  IF S = {} THEN << >>
  ELSE LET m == CHOOSE x \in S : \A y \in S \ {x} : LevelNameLess(imports, x, y)
       IN  <<m>> \o SortByLevelName(imports, S \ {m})

\* sort.Strings
RECURSIVE SortByName(_)
SortByName(S) ==
  IF S = {} THEN << >>
  ELSE LET m == CHOOSE x \in S : \A y \in S \ {x} : NameLess(x, y)
       IN  <<m>> \o SortByName(S \ {m})

TopologicalOrder(imports) == SortByLevelName(imports, DOMAIN imports)

GroupByLevel(imports) ==
  LET maxLevel == Max({0} \cup { calcLevel(imports, t) : t \in DOMAIN imports })
  IN  [ l \in 1..(maxLevel + 1) |->
          SortByName({ t \in DOMAIN imports : calcLevel(imports, t) = l - 1 }) ]

\* addDeps: marks name as included, then recurses into its target-typed
\* dependencies in declaration order (sources are never followed)
RECURSIVE addDeps(_, _, _)
addDeps(imports, n, included) ==
  IF n \in included THEN included
  ELSE LET RECURSIVE over(_, _)
           over(k, inc) ==
             IF k > Len(imports[n]) THEN inc
             ELSE IF IsTarget(imports, imports[n][k])
                  THEN over(k + 1, addDeps(imports, imports[n][k], inc))
                  ELSE over(k + 1, inc)
       IN  IF IsTarget(imports, n) THEN over(1, included \cup {n})
           ELSE included \cup {n}

IncludeDependencies(imports, requested) ==
  LET RECURSIVE all(_, _)
      all(k, inc) == IF k > Len(requested) THEN inc
                     ELSE all(k + 1, addDeps(imports, requested[k], inc))
  IN  SortByLevelName(imports, all(1, {}))

\* Pipeline.resolveTargets
resolveTargets(imports, requested) ==
  IF Len(requested) = 0 THEN TopologicalOrder(imports)
  ELSE IncludeDependencies(imports, requested)

(***************************************************************************)
(* Errors.  An error value is the chain of its messages, outermost wrapper *)
(* first (fmt.Errorf("...: %w", err) puts a message in front); NoError is   *)
(* nil.                                                                    *)
(***************************************************************************)

NoError == << >>

\* ctx.Err() of a cancelled context
CtxErr == <<"context canceled">>

Wrap(msg, err) == <<msg>> \o err

\* errors.Is(err, ctx.Err())
IsCtxErr(err) == err # NoError /\ err[Len(err)] = "context canceled"

(***************************************************************************)
(* Sync specs (v1alpha1.VaultSecretSync) built by the pipeline             *)
(***************************************************************************)

\* Config.GetSourcePath: a source resolves to its mount, an inherited target
\* to its merge-store path when the merge store is Vault, else the name
GetSourcePath(c, importName) ==
  IF importName \in SourceNames THEN <<"mount", importName>>
  ELSE IF IsTarget(c.imports, importName) /\ c.vault
       THEN <<"merge", importName>>
       ELSE <<"name", importName>>

createMergeSync(c, importName, targetName, dryRun) ==
  [ name       |-> <<"merge", importName, targetName>>,
    kind       |-> "merge",
    source     |-> GetSourcePath(c, importName),
    import     |-> importName,
    target     |-> targetName,
    dryRun     |-> dryRun,
    syncDelete |-> FALSE,
    merge      |-> TRUE ]

createAWSSync(c, targetName, dryRun) ==
  [ name       |-> <<"sync", targetName, targetName>>,
    kind       |-> "sync",
    source     |-> <<"merge", targetName>>,
    import     |-> targetName,
    target     |-> targetName,
    dryRun     |-> dryRun,
    syncDelete |-> c.deleteOrphans,
    merge      |-> FALSE ]

(***************************************************************************)
(* Results                                                                 *)
(***************************************************************************)

\* the zero Result of make([]Result, n)
ZeroResult ==
  [ target |-> "", phase |-> "", success |-> FALSE, error |-> NoError,
    failedImports |-> << >>, processed |-> 0 ]

SkippedResult_Unnamed(t) ==
  [ target |-> "", phase |-> "", success |-> FALSE, error |-> CtxErr,
    failedImports |-> << >>, processed |-> 0 ]

\* the Result executeParallel stores for a target it does not start
SkippedResult(t) ==
  [ target |-> t, phase |-> "", success |-> FALSE, error |-> CtxErr,
    failedImports |-> << >>, processed |-> 0 ]

\* the locals of one mergeTarget / syncTarget call
IdleTask ==
  [ st |-> "idle", idx |-> 0, pos |-> 1, failedImports |-> << >>,
    lastErr |-> NoError, successCount |-> 0 ]

(***************************************************************************)
(* State                                                                   *)
(***************************************************************************)

VARIABLES
  cfg,          \* Pipeline.config (with s3Store), fixed during a run
  opts,         \* the Options Run is called with
  ctxDone,      \* the root context has been cancelled
  pc,           \* position of the goroutine executing Run
  parallelism,  \* opts.Parallelism after Run has applied the config
  targets,      \* the resolved target list
  phase,        \* phase whose executeParallel call is active
  levelIdx,     \* executeMergePhase: index into levels
  results,      \* results accumulated by the active phase
  phaseErr,     \* error returned by the phase that last returned
  allResults,   \* runPipeline: allResults
  epTargets,    \* executeParallel: targets
  epIdx,        \* executeParallel: loop index i
  semCap,       \* executeParallel: capacity of sem
  sem,          \* executeParallel: number of elements in sem
  slots,        \* executeParallel: results
  task,         \* per target: state of its task goroutine
  retResults,   \* the result slice Run returned
  retErr,       \* the error Run returned
  SyncConfigs,  \* backend registry of sync specs, by name
  queue,        \* triggered jobs awaiting the worker pool
  jobStatus,    \* sync status set by the worker, by spec name
  applied,      \* per target: imports merged into its merge-store path, in order
  s3Objects,    \* objects written to the S3 merge store
  awsWritten,   \* targets whose destination account has been written
  writeCalls,   \* WriteSecret / DeleteSecret calls that reached a driver
  started,      \* (phase, target) of every task that has been started
  lateStart,    \* some task was started after the context was cancelled
  finished,     \* (phase, target) of every task that has returned
  workLeft,     \* at cancellation, some requested task had not returned
  mergeWork,    \* (target, import) of every import iteration begun
  faults,       \* number of failures injected so far
  firstFailure  \* error of the first failed import of the merge phase

\* State of the Pipeline object under concurrent calls of Run
VARIABLES
  mu,           \* Pipeline.mu: 0 when unlocked, else the caller holding it
  pResults,     \* Pipeline.results
  calls         \* per caller: its call of Run (position, opts, locals, return)

callVars == << mu, pResults, calls >>

\* BuildGraph and the queries on the graph it returns
VARIABLES
  gImports,     \* Config.Targets[name].Imports of the config given to BuildGraph
  graph,        \* what BuildGraph returned: the graph (node levels) or the error
  query         \* the last query on the graph: method, argument, result

graphVars == << gImports, graph, query >>

\* DeepMerge and its two payloads
VARIABLES
  mergeDst,     \* the argument dst of DeepMerge
  mergeSrc,     \* the argument src of DeepMerge
  mergeOut      \* what DeepMerge returned, once it has been called

mergeVars == << mergeDst, mergeSrc, mergeOut >>

\* the memory DeepMerge works on
VARIABLES
  heap,         \* the mappings and sequences allocated, by address
  dstRef,       \* the address of the mapping passed as dst
  srcRef,       \* the address of the mapping passed as src
  outRef,       \* the address DeepMerge returned, 0 before the call
  mutated       \* the caller has written into what DeepMerge returned

aliasVars == << heap, dstRef, srcRef, outRef, mutated >>

\* one call of a function studied on its own
VARIABLES
  fnArgs,       \* the arguments of the call
  fnResult      \* what the call returned and did, once it has been made

fnVars == << fnArgs, fnResult >>

\* the variables no step of a run of the pipeline changes
otherVars == << callVars, graphVars, mergeVars, aliasVars, fnVars >>

vars ==
  << cfg, opts, ctxDone, pc, parallelism, targets, phase, levelIdx, results,
     phaseErr, allResults, epTargets, epIdx, semCap, sem, slots, task,
     retResults, retErr, SyncConfigs, queue, jobStatus, applied, s3Objects,
     awsWritten, writeCalls, started, lateStart, finished, workLeft,
     mergeWork, faults, firstFailure, otherVars >>

inputVars == << cfg, opts >>

runVars == << pc, parallelism, targets, phase, levelIdx, results, phaseErr,
              allResults, retResults, retErr >>

epVars == << epTargets, epIdx, semCap, sem, slots, task >>

backendVars == << SyncConfigs, queue, jobStatus, applied, s3Objects,
                  awsWritten, writeCalls, faults >>

historyVars == << started, lateStart, finished, workLeft, mergeWork,
                  firstFailure >>

\* the variables of one run of the pipeline
pipelineVars == << inputVars, ctxDone, runVars, epVars, backendVars,
                  historyVars >>

OptionsSet ==
  [ operation : Operations, targets : RequestedLists, dryRun : BOOLEAN,
    continueOnError : BOOLEAN, parallelism : 0..MaxParallelism ]

Callers == 1..NumCallers

\* a caller that has not called Run
IdleCall ==
  [ st |-> "idle", operation |-> "merge", targets |-> << >>, work |-> << >>,
    results |-> << >>, ret |-> << >> ]

\* a Pipeline on which Run has not been called
CallsInit ==
  /\ mu = 0
  /\ pResults = << >>
  /\ calls = [c \in Callers |-> IdleCall]

\* BuildGraph has not been called
NoGraph == [ st |-> "none", level |-> << >>, err |-> NoError ]

\* no query has been made
NoQuery == [ fn |-> "none", arg |-> << >>, result |-> << >> ]

GraphInit ==
  /\ gImports = ChainImports
  /\ graph = NoGraph
  /\ query = NoQuery

\* map[string]interface{}{}
EmptyMap == [k \in {} |-> 0]

\* DeepMerge has not been called
NotMerged == [ st |-> "none", val |-> EmptyMap ]

MergeInit ==
  /\ mergeDst = EmptyMap
  /\ mergeSrc = EmptyMap
  /\ mergeOut = NotMerged

\* no function is being studied
NoCall == [ fn |-> "none" ]

FnInit ==
  /\ fnArgs = NoCall
  /\ fnResult = NoCall

\* nothing is allocated
AliasInit ==
  /\ heap = << >>
  /\ dstRef = 0
  /\ srcRef = 0
  /\ outRef = 0
  /\ mutated = FALSE

\* the state after construction, for a given config and given options
PipelineInit ==
  /\ ctxDone = FALSE
  /\ pc = "Run"
  /\ parallelism = 0
  /\ targets = << >>
  /\ phase = "none"
  /\ levelIdx = 0
  /\ results = << >>
  /\ phaseErr = NoError
  /\ allResults = << >>
  /\ epTargets = << >>
  /\ epIdx = 0
  /\ semCap = 0
  /\ sem = 0
  /\ slots = << >>
  /\ task = [t \in TargetNames |-> IdleTask]
  /\ retResults = << >>
  /\ retErr = NoError
  /\ SyncConfigs = {}
  /\ queue = << >>
  /\ jobStatus = << >>
  /\ applied = [t \in TargetNames |-> << >>]
  /\ s3Objects = {}
  /\ awsWritten = {}
  /\ writeCalls = {}
  /\ started = {}
  /\ lateStart = FALSE
  /\ finished = {}
  /\ workLeft = FALSE
  /\ mergeWork = {}
  /\ faults = 0
  /\ firstFailure = NoError

Init ==
  /\ cfg \in Configs
  /\ opts \in OptionsSet
  /\ PipelineInit
  /\ CallsInit
  /\ GraphInit
  /\ MergeInit
  /\ AliasInit
  /\ FnInit

\* a Pipeline on which no run is in progress
PipelineIdle ==
  /\ cfg = CHOOSE c \in Configs : c.imports = ChainImports /\ c.mergeParallel = 1
  /\ opts = CHOOSE o \in OptionsSet : TRUE
  /\ PipelineInit

(***************************************************************************)
(* Run and the two phases (pipeline.go)                                    *)
(***************************************************************************)

\* Run: "Apply options from config if not specified"
EffectiveParallelism(optPar, cfgPar) ==
  IF optPar <= 0
  THEN (IF cfgPar <= 0 THEN DefaultParallelism ELSE cfgPar)
  ELSE optPar

\* Config.applyDefaults: a parallel setting of zero or less becomes the default
ConfiguredLimit(n) == IF n <= 0 THEN DefaultParallelism ELSE n

\* executeParallel: the floor on maxParallel
ClampParallel(maxParallel) == IF maxParallel <= 0 THEN 1 ELSE maxParallel

\* mutant of SemAcquirable: a send on sem that never blocks
SemAcquirable_Unbounded(n, capacity) == TRUE

\* executeParallel: sem <- struct{}{} can proceed
SemAcquirable(n, capacity) == n < capacity

\* initialize: size of the worker pool of the event processor
WorkerPoolSize(c) ==
  IF c.mergeParallel <= 0 THEN DefaultParallelism ELSE c.mergeParallel

\* mergeTarget / syncTarget: a merge path can be determined
HasMergeStore(c) == c.vault \/ c.s3Store

\* the phases an operation executes
PhasesOf(op) ==
  CASE op = "merge" -> {"merge"} [] op = "sync" -> {"sync"}
    [] op = "pipeline" -> {"merge", "sync"}

\* every (phase, target) task the run is asked to perform
RequestedWork ==
  PhasesOf(opts.operation) \X Range(resolveTargets(cfg.imports, opts.targets))

\* executeMergePhase: "Filter to requested targets"
FilterRequested(level, requested) ==
  SelectSeq(level, LAMBDA t : t \in Range(requested))

\* the error loop after a level / after the sync phase: lastErr becomes the
\* error of each unsuccessful result in turn, and the loop returns at the
\* first one unless ContinueOnError
CheckResults(rs, lastErr, continueOnError) ==
  LET failing == { k \in 1..Len(rs) : ~rs[k].success }
  IN  IF failing = {} THEN [abort |-> FALSE, err |-> lastErr]
      ELSE IF ~continueOnError
           THEN [abort |-> TRUE,
                 err |-> rs[CHOOSE k \in failing : \A j \in failing : k <= j].error]
           ELSE [abort |-> FALSE, err |-> rs[Max(failing)].error]

\* executeParallel up to the loop: results, sem, wait group
EnterParallel(ts, maxParallel) ==
  /\ epTargets' = ts
  /\ epIdx' = 1
  /\ semCap' = ClampParallel(maxParallel)
  /\ sem' = 0
  /\ slots' = [k \in 1..Len(ts) |-> ZeroResult]
  /\ task' = [t \in TargetNames |-> IdleTask]

\* Run up to the dispatch on opts.Operation
Run ==
  /\ pc = "Run"
  /\ targets' = resolveTargets(cfg.imports, opts.targets)
  /\ parallelism' = EffectiveParallelism(opts.parallelism, cfg.mergeParallel)
  /\ pc' = IF opts.operation = "sync" THEN "syncPhase" ELSE "mergePhase"
  /\ levelIdx' = 1
  /\ results' = << >>
  /\ phaseErr' = NoError
  /\ UNCHANGED << phase, allResults, retResults, retErr >>
  /\ UNCHANGED << otherVars, inputVars, ctxDone, epVars, backendVars, historyVars >>

\* executeMergePhase: all levels processed
MergeLevelsDone ==
  /\ pc = "mergePhase"
  /\ levelIdx > Len(GroupByLevel(cfg.imports))
  /\ pc' = "mergeReturned"
  /\ UNCHANGED << parallelism, targets, phase, levelIdx, results, phaseErr,
                  allResults, retResults, retErr >>
  /\ UNCHANGED << otherVars, inputVars, ctxDone, epVars, backendVars, historyVars >>

\* executeMergePhase: a level none of whose targets is requested
MergeLevelEmpty ==
  /\ pc = "mergePhase"
  /\ levelIdx <= Len(GroupByLevel(cfg.imports))
  /\ FilterRequested(GroupByLevel(cfg.imports)[levelIdx], targets) = << >>
  /\ levelIdx' = levelIdx + 1
  /\ UNCHANGED << pc, parallelism, targets, phase, results, phaseErr,
                  allResults, retResults, retErr >>
  /\ UNCHANGED << otherVars, inputVars, ctxDone, epVars, backendVars, historyVars >>

\* executeMergePhase: "Execute level in parallel"
MergeLevelStart ==
  /\ pc = "mergePhase"
  /\ levelIdx <= Len(GroupByLevel(cfg.imports))
  /\ LET levelTargets ==
           FilterRequested(GroupByLevel(cfg.imports)[levelIdx], targets)
     IN  /\ levelTargets # << >>
         /\ EnterParallel(levelTargets, parallelism)
  /\ pc' = "exec"
  /\ phase' = "merge"
  /\ UNCHANGED << parallelism, targets, levelIdx, results, phaseErr,
                  allResults, retResults, retErr >>
  /\ UNCHANGED << otherVars, inputVars, ctxDone, backendVars, historyVars >>

\* executeSyncPhase: call of executeParallel
SyncPhaseStart ==
  /\ pc = "syncPhase"
  /\ EnterParallel(targets, parallelism)
  /\ pc' = "exec"
  /\ phase' = "sync"
  /\ results' = << >>
  /\ phaseErr' = NoError
  /\ UNCHANGED << parallelism, targets, levelIdx, allResults, retResults,
                  retErr >>
  /\ UNCHANGED << otherVars, inputVars, ctxDone, backendVars, historyVars >>

(***************************************************************************)
(* executeParallel                                                         *)
(***************************************************************************)

\* select case <-ctx.Done(): the target is not started
ExecSkip ==
  /\ pc = "exec"
  /\ epIdx <= Len(epTargets)
  /\ ctxDone
  /\ slots' = [slots EXCEPT ![epIdx] = SkippedResult(epTargets[epIdx])]
  /\ epIdx' = epIdx + 1
  /\ UNCHANGED << epTargets, semCap, sem, task >>
  /\ UNCHANGED << otherVars, inputVars, ctxDone, runVars, backendVars, historyVars >>

\* select case sem <- struct{}{}: the task goroutine is started
ExecSpawn ==
  /\ pc = "exec"
  /\ epIdx <= Len(epTargets)
  /\ SemAcquirable(sem, semCap)
  /\ sem' = sem + 1
  /\ task' = [task EXCEPT ![epTargets[epIdx]] =
                [IdleTask EXCEPT !.st = "running", !.idx = epIdx]]
  /\ started' = started \cup {<<phase, epTargets[epIdx]>>}
  /\ lateStart' = (lateStart \/ ctxDone)
  /\ epIdx' = epIdx + 1
  /\ UNCHANGED << epTargets, semCap, slots >>
  /\ UNCHANGED << otherVars, inputVars, ctxDone, runVars, backendVars, finished,
                  workLeft, mergeWork, firstFailure >>

\* wg.Wait() has returned: the loop is over and no task is running
ParallelReturned ==
  /\ pc = "exec"
  /\ epIdx > Len(epTargets)
  /\ \A t \in TargetNames : task[t].st # "running"

(***************************************************************************)
(* Task goroutines: mergeTarget and syncTarget                             *)
(***************************************************************************)

\* what AddSyncConfig followed by ManualTrigger can do for one spec: both
\* succeed (the job is queued), AddSyncConfig fails, ManualTrigger fails, or
\* ManualTrigger gives up on a cancelled context
TriggerOutcomes ==
  {"ok"} \cup (IF faults < MaxFaults THEN {"addFail", "triggerFail"} ELSE {})
         \cup (IF ctxDone THEN {"ctxFail"} ELSE {})

\* the outcome is an injected failure
IsFault(outcome) == outcome \in {"addFail", "triggerFail", "fail"}

TriggerError(outcome, importName, targetName) ==
  CASE outcome = "addFail" ->
         <<"add sync config: " \o importName \o " to " \o targetName>>
    [] outcome = "triggerFail" ->
         <<"trigger: " \o importName \o " to " \o targetName>>
    [] outcome = "ctxFail" -> CtxErr
    [] OTHER -> NoError

\* mutant of S3WriteGuard: the S3 branch taken without looking at dryRun
S3WriteGuard_IgnoresDryRun(c, dryRun) == c.s3Store

\* mergeTarget: the S3 branch of the import loop is taken
S3WriteGuard(c, dryRun) == c.s3Store /\ ~dryRun

\* the Result mergeTarget returns
MergeResult(c, t, tk) ==
  IF ~HasMergeStore(c)
  THEN [ target |-> t, phase |-> "merge", success |-> FALSE,
         error |-> <<"no merge store configured">>,
         failedImports |-> << >>, processed |-> 0 ]
  ELSE [ target |-> t, phase |-> "merge", success |-> (tk.lastErr = NoError),
         error |-> tk.lastErr, failedImports |-> tk.failedImports,
         processed |-> tk.successCount ]

\* the Result syncTarget returns
SyncResult(c, t, tk) ==
  IF ~HasMergeStore(c)
  THEN [ target |-> t, phase |-> "sync", success |-> FALSE,
         error |-> <<"no merge store configured">>,
         failedImports |-> << >>, processed |-> 0 ]
  ELSE IF tk.lastErr # NoError
       THEN [ target |-> t, phase |-> "sync", success |-> FALSE,
              error |-> tk.lastErr, failedImports |-> << >>, processed |-> 0 ]
       ELSE [ target |-> t, phase |-> "sync", success |-> TRUE,
              error |-> NoError, failedImports |-> << >>, processed |-> 0 ]

\* one iteration of mergeTarget's loop over target.Imports
mergeTargetImport(t) ==
  /\ pc = "exec"
  /\ phase = "merge"
  /\ task[t].st = "running"
  /\ HasMergeStore(cfg)
  /\ task[t].pos <= Len(cfg.imports[t])
  /\ LET imp == cfg.imports[t][task[t].pos]
         sc  == createMergeSync(cfg, imp, t, opts.dryRun)
     IN  \E vo \in (IF cfg.vault THEN TriggerOutcomes ELSE {"none"}) :
         \E so \in (IF S3WriteGuard(cfg, opts.dryRun) /\ vo \in {"ok", "none"}
                    THEN {"ok"} \cup (IF faults < MaxFaults THEN {"fail"}
                                      ELSE {})
                    ELSE {"none"}) :
           LET err == IF vo \notin {"ok", "none"} THEN TriggerError(vo, imp, t)
                      ELSE IF so = "fail"
                           THEN <<"s3 write: " \o imp \o " to " \o t>>
                           ELSE NoError
           IN  /\ task' = [task EXCEPT ![t] =
                    [@ EXCEPT !.pos = @ + 1,
                              !.failedImports =
                                 IF err # NoError THEN Append(@, imp) ELSE @,
                              !.lastErr = IF err # NoError THEN err ELSE @,
                              !.successCount =
                                 IF err = NoError THEN @ + 1 ELSE @]]
               /\ SyncConfigs' = IF vo \in {"ok", "triggerFail", "ctxFail"}
                                 THEN SyncConfigs \cup {sc} ELSE SyncConfigs
               /\ queue' = IF vo = "ok" THEN Append(queue, sc) ELSE queue
               /\ s3Objects' = IF so = "ok" THEN s3Objects \cup {<<t, imp>>}
                               ELSE s3Objects
               /\ writeCalls' = IF so \in {"ok", "fail"}
                                THEN writeCalls \cup {<<"s3", "write", t, imp>>}
                                ELSE writeCalls
               /\ firstFailure' = IF firstFailure = NoError THEN err
                                  ELSE firstFailure
               /\ mergeWork' = mergeWork \cup {<<t, imp>>}
               /\ faults' = IF IsFault(vo) \/ IsFault(so) THEN faults + 1
                             ELSE faults
  /\ UNCHANGED << epTargets, epIdx, semCap, sem, slots >>
  /\ UNCHANGED << otherVars, inputVars, ctxDone, runVars, jobStatus, applied, awsWritten,
                  started, lateStart, finished, workLeft >>

\* mergeTarget returns; the goroutine stores the Result, releases its slot
\* and signals the wait group
mergeTargetReturn(t) ==
  /\ pc = "exec"
  /\ phase = "merge"
  /\ task[t].st = "running"
  /\ ~HasMergeStore(cfg) \/ task[t].pos > Len(cfg.imports[t])
  /\ slots' = [slots EXCEPT ![task[t].idx] = MergeResult(cfg, t, task[t])]
  /\ sem' = sem - 1
  /\ task' = [task EXCEPT ![t].st = "done"]
  /\ finished' = finished \cup {<<"merge", t>>}
  /\ UNCHANGED << epTargets, epIdx, semCap >>
  /\ UNCHANGED << otherVars, inputVars, ctxDone, runVars, backendVars, started,
                  lateStart, workLeft, mergeWork, firstFailure >>

\* syncTarget: createAWSSync, AddSyncConfig, ManualTrigger
syncTargetTrigger(t) ==
  /\ pc = "exec"
  /\ phase = "sync"
  /\ task[t].st = "running"
  /\ HasMergeStore(cfg)
  /\ task[t].pos = 1
  /\ LET sc == createAWSSync(cfg, t, opts.dryRun)
     IN  \E o \in TriggerOutcomes :
           /\ task' = [task EXCEPT ![t] =
                [@ EXCEPT !.pos = 2,
                          !.lastErr =
                             CASE o = "ok" -> NoError
                               [] o = "addFail" ->
                                    Wrap("failed to add sync config",
                                         TriggerError(o, t, "aws"))
                               [] OTHER ->
                                    Wrap("failed to trigger sync",
                                         TriggerError(o, t, "aws"))]]
           /\ SyncConfigs' = IF o # "addFail" THEN SyncConfigs \cup {sc}
                             ELSE SyncConfigs
           /\ queue' = IF o = "ok" THEN Append(queue, sc) ELSE queue
           /\ faults' = IF IsFault(o) THEN faults + 1 ELSE faults
  /\ UNCHANGED << epTargets, epIdx, semCap, sem, slots >>
  /\ UNCHANGED << otherVars, inputVars, ctxDone, runVars, jobStatus, applied, s3Objects,
                  awsWritten, writeCalls, historyVars >>

\* syncTarget returns
syncTargetReturn(t) ==
  /\ pc = "exec"
  /\ phase = "sync"
  /\ task[t].st = "running"
  /\ ~HasMergeStore(cfg) \/ task[t].pos = 2
  /\ slots' = [slots EXCEPT ![task[t].idx] = SyncResult(cfg, t, task[t])]
  /\ sem' = sem - 1
  /\ task' = [task EXCEPT ![t].st = "done"]
  /\ finished' = finished \cup {<<"sync", t>>}
  /\ UNCHANGED << epTargets, epIdx, semCap >>
  /\ UNCHANGED << otherVars, inputVars, ctxDone, runVars, backendVars, started,
                  lateStart, workLeft, mergeWork, firstFailure >>

(***************************************************************************)
(* Return of executeParallel into the phases, and of the phases into Run   *)
(***************************************************************************)

\* executeMergePhase after a level: append, check for errors, abort
MergeLevelAbort ==
  /\ ParallelReturned
  /\ phase = "merge"
  /\ CheckResults(slots, phaseErr, opts.continueOnError).abort
  /\ results' = results \o slots
  /\ phaseErr' = CheckResults(slots, phaseErr, opts.continueOnError).err
  /\ pc' = "mergeReturned"
  /\ UNCHANGED << parallelism, targets, phase, levelIdx, allResults,
                  retResults, retErr >>
  /\ UNCHANGED << otherVars, inputVars, ctxDone, epVars, backendVars, historyVars >>

\* executeMergePhase after a level: append, check for errors, next level
MergeLevelNext ==
  /\ ParallelReturned
  /\ phase = "merge"
  /\ ~CheckResults(slots, phaseErr, opts.continueOnError).abort
  /\ results' = results \o slots
  /\ phaseErr' = CheckResults(slots, phaseErr, opts.continueOnError).err
  /\ levelIdx' = levelIdx + 1
  /\ pc' = "mergePhase"
  /\ UNCHANGED << parallelism, targets, phase, allResults, retResults, retErr >>
  /\ UNCHANGED << otherVars, inputVars, ctxDone, epVars, backendVars, historyVars >>

\* executeSyncPhase after executeParallel: both exits return (results, lastErr)
SyncPhaseReturn ==
  /\ ParallelReturned
  /\ phase = "sync"
  /\ results' = slots
  /\ phaseErr' = CheckResults(slots, NoError, opts.continueOnError).err
  /\ pc' = "syncReturned"
  /\ UNCHANGED << parallelism, targets, phase, levelIdx, allResults,
                  retResults, retErr >>
  /\ UNCHANGED << otherVars, inputVars, ctxDone, epVars, backendVars, historyVars >>

\* runMerge returns what executeMergePhase returned
runMergeReturn ==
  /\ pc = "mergeReturned"
  /\ opts.operation = "merge"
  /\ retResults' = results
  /\ retErr' = phaseErr
  /\ pc' = "returned"
  /\ UNCHANGED << parallelism, targets, phase, levelIdx, results, phaseErr,
                  allResults >>
  /\ UNCHANGED << otherVars, inputVars, ctxDone, epVars, backendVars, historyVars >>

\* runPipeline: the merge phase failed and ContinueOnError is off
runPipelineAbort ==
  /\ pc = "mergeReturned"
  /\ opts.operation = "pipeline"
  /\ phaseErr # NoError /\ ~opts.continueOnError
  /\ allResults' = results
  /\ retResults' = results
  /\ retErr' = Wrap("merge phase failed", phaseErr)
  /\ pc' = "returned"
  /\ UNCHANGED << parallelism, targets, phase, levelIdx, results, phaseErr >>
  /\ UNCHANGED << otherVars, inputVars, ctxDone, epVars, backendVars, historyVars >>

\* runPipeline: on to "Phase 2: Sync"
runPipelineSync ==
  /\ pc = "mergeReturned"
  /\ opts.operation = "pipeline"
  /\ ~(phaseErr # NoError /\ ~opts.continueOnError)
  /\ allResults' = results
  /\ pc' = "syncPhase"
  /\ UNCHANGED << parallelism, targets, phase, levelIdx, results, phaseErr,
                  retResults, retErr >>
  /\ UNCHANGED << otherVars, inputVars, ctxDone, epVars, backendVars, historyVars >>

\* runSync returns what executeSyncPhase returned
runSyncReturn ==
  /\ pc = "syncReturned"
  /\ opts.operation = "sync"
  /\ retResults' = results
  /\ retErr' = phaseErr
  /\ pc' = "returned"
  /\ UNCHANGED << parallelism, targets, phase, levelIdx, results, phaseErr,
                  allResults >>
  /\ UNCHANGED << otherVars, inputVars, ctxDone, epVars, backendVars, historyVars >>

\* runPipeline returns after the sync phase
runPipelineReturn ==
  /\ pc = "syncReturned"
  /\ opts.operation = "pipeline"
  /\ allResults' = allResults \o results
  /\ retResults' = allResults \o results
  /\ retErr' = IF phaseErr # NoError THEN Wrap("sync phase failed", phaseErr)
               ELSE NoError
  /\ pc' = "returned"
  /\ UNCHANGED << parallelism, targets, phase, levelIdx, results, phaseErr >>
  /\ UNCHANGED << otherVars, inputVars, ctxDone, epVars, backendVars, historyVars >>

(***************************************************************************)
(* Environment: cancellation of the root context                           *)
(***************************************************************************)

Cancel ==
  /\ ~ctxDone
  /\ pc # "returned"
  /\ ctxDone' = TRUE
  /\ workLeft' = (RequestedWork \ finished # {})
  /\ UNCHANGED << otherVars, inputVars, runVars, epVars, backendVars, started,
                  lateStart, finished, mergeWork, firstFailure >>

(***************************************************************************)
(* The worker pool of the event processor.  Up to WorkerPoolSize jobs are  *)
(* in progress at once, taken from the queue in order; a job in progress   *)
(* completes at any time.  A job whose spec has dryRun set takes no write  *)
(* path (shouldDryRun); any other job either fails or writes every secret  *)
(* of its source to its destination.                                       *)
(***************************************************************************)

RemoveAt(s, k) == [j \in 1..(Len(s) - 1) |-> IF j < k THEN s[j] ELSE s[j + 1]]

\* shouldDryRun: Spec.DryRun is set
shouldDryRun(job) == job.dryRun

\* driver calls of a job that completes successfully
JobCalls(job) ==
  IF job.merge THEN {<<"vault", "write", job.target, job.import>>}
  ELSE {<<"aws", "write", job.target, job.import>>}
       \cup (IF job.syncDelete
             THEN {<<"aws", "delete", job.target, job.import>>} ELSE {})

\* a dry-run job: status DryRun, no driver write
ProcessJobDryRun(k) ==
  /\ k <= Len(queue)
  /\ shouldDryRun(queue[k])
  /\ queue' = RemoveAt(queue, k)
  /\ jobStatus' = (queue[k].name :> "DryRun") @@ jobStatus
  /\ UNCHANGED << SyncConfigs, applied, s3Objects, awsWritten, writeCalls,
                  faults >>
  /\ UNCHANGED << otherVars, inputVars, ctxDone, runVars, epVars, historyVars >>

\* a job that fails (source read, role assumption, write failure)
ProcessJobFail(k) ==
  /\ k <= Len(queue)
  /\ ~shouldDryRun(queue[k])
  /\ faults < MaxFaults
  /\ faults' = faults + 1
  /\ queue' = RemoveAt(queue, k)
  /\ jobStatus' = (queue[k].name :> "Failed") @@ jobStatus
  /\ UNCHANGED << SyncConfigs, applied, s3Objects, awsWritten, writeCalls >>
  /\ UNCHANGED << otherVars, inputVars, ctxDone, runVars, epVars, historyVars >>

\* a job that succeeds: merge jobs deep-merge into the merge path, sync
\* jobs write the destination account
ProcessJobOk(k) ==
  /\ k <= Len(queue)
  /\ ~shouldDryRun(queue[k])
  /\ queue' = RemoveAt(queue, k)
  /\ jobStatus' = (queue[k].name :> "Success") @@ jobStatus
  /\ applied' = IF queue[k].merge
                THEN [applied EXCEPT ![queue[k].target] =
                        Append(@, queue[k].import)]
                ELSE applied
  /\ awsWritten' = IF queue[k].merge THEN awsWritten
                   ELSE awsWritten \cup {queue[k].target}
  /\ writeCalls' = writeCalls \cup JobCalls(queue[k])
  /\ UNCHANGED << SyncConfigs, s3Objects, faults >>
  /\ UNCHANGED << otherVars, inputVars, ctxDone, runVars, epVars, historyVars >>

(***************************************************************************)
(* Specification                                                           *)
(***************************************************************************)

Next ==
  \/ Run
  \/ MergeLevelsDone
  \/ MergeLevelEmpty
  \/ MergeLevelStart
  \/ SyncPhaseStart
  \/ ExecSkip
  \/ ExecSpawn
  \/ \E t \in TargetNames : mergeTargetImport(t)
  \/ \E t \in TargetNames : mergeTargetReturn(t)
  \/ \E t \in TargetNames : syncTargetTrigger(t)
  \/ \E t \in TargetNames : syncTargetReturn(t)
  \/ MergeLevelAbort
  \/ MergeLevelNext
  \/ SyncPhaseReturn
  \/ runMergeReturn
  \/ runPipelineAbort
  \/ runPipelineSync
  \/ runSyncReturn
  \/ runPipelineReturn
  \/ Cancel
  \/ \E k \in 1..WorkerPoolSize(cfg) : ProcessJobDryRun(k)
  \/ \E k \in 1..WorkerPoolSize(cfg) : ProcessJobFail(k)
  \/ \E k \in 1..WorkerPoolSize(cfg) : ProcessJobOk(k)

Spec == Init /\ [][Next]_vars

(***************************************************************************)
(* Concurrent calls of Run on one Pipeline.  Run holds Pipeline.mu from    *)
(* its first statement to its return; the result slice of a call is a      *)
(* local of that call, and Pipeline.results is assigned once, just before  *)
(* the return.  The config is the chain a <- b; each Result records the    *)
(* caller whose call produced it.                                          *)
(***************************************************************************)

\* the variables no call of Run changes in this view
outsideCalls == << pipelineVars, graphVars, mergeVars, aliasVars, fnVars >>

\* mutant of MuFree: p.mu.Lock() that never blocks
MuFree_Always(m) == TRUE

\* p.mu.Lock() can proceed
MuFree(m) == m = 0

\* the target tasks of a call, in the order Run performs them: the merge
\* phase over the resolved targets, then the sync phase
RunWork(operation, requested) ==
  LET ts == resolveTargets(ChainImports, requested)
      of(ph) == IF ph \in PhasesOf(operation)
                THEN [k \in 1..Len(ts) |-> <<ph, ts[k]>>] ELSE << >>
  IN  of("merge") \o of("sync")

\* a goroutine calls Run and reaches p.mu.Lock()
CallRun(c) ==
  /\ calls[c].st = "idle"
  /\ \E op \in Operations, req \in RequestedLists :
       calls' = [calls EXCEPT ![c] =
                  [IdleCall EXCEPT !.st = "locking", !.operation = op,
                                   !.targets = req]]
  /\ UNCHANGED << mu, pResults, outsideCalls >>

\* p.mu.Lock() returns; Run resets p.results and resolves the targets
RunLock(c) ==
  /\ calls[c].st = "locking"
  /\ MuFree(mu)
  /\ mu' = c
  /\ pResults' = << >>
  /\ calls' = [calls EXCEPT ![c].st = "running",
                            ![c].work = RunWork(calls[c].operation,
                                                calls[c].targets)]
  /\ UNCHANGED outsideCalls

\* the next target task of the call completes and its Result is collected
RunStep(c) ==
  /\ calls[c].st = "running"
  /\ calls[c].work # << >>
  /\ LET w == Head(calls[c].work)
     IN  calls' = [calls EXCEPT
           ![c].work = Tail(@),
           ![c].results = Append(@, [target |-> w[2], phase |-> w[1],
                                      by |-> c])]
  /\ UNCHANGED << mu, pResults, outsideCalls >>

\* runMerge / runSync / runPipeline store p.results and return; the deferred
\* p.mu.Unlock() runs
RunReturn(c) ==
  /\ calls[c].st = "running"
  /\ calls[c].work = << >>
  /\ pResults' = calls[c].results
  /\ calls' = [calls EXCEPT ![c].st = "returned", ![c].ret = calls[c].results]
  /\ mu' = 0
  /\ UNCHANGED outsideCalls

NextRun ==
  \/ \E c \in Callers : CallRun(c)
  \/ \E c \in Callers : RunLock(c)
  \/ \E c \in Callers : RunStep(c)
  \/ \E c \in Callers : RunReturn(c)

InitRun ==
  /\ PipelineIdle
  /\ CallsInit
  /\ GraphInit
  /\ MergeInit
  /\ AliasInit
  /\ FnInit

SpecRun == InitRun /\ [][NextRun]_vars

(***************************************************************************)
(* BuildGraph and the queries on its result (graph.go).  A Go map is       *)
(* iterated in an unspecified order: every loop over g.Nodes or over the   *)
(* included map takes its elements in an arbitrary permutation.            *)
(***************************************************************************)

GraphSources == {"s1"}

GraphTargets == TargetNames

GraphNodes == GraphSources \cup GraphTargets

\* the variables BuildGraph and the graph queries do not change
outsideGraph == << pipelineVars, callVars, mergeVars, aliasVars, fnVars >>

\* the sequences over S of length at most n without repeated elements
DistinctSeqs(S, n) ==
  { q \in UNION { [1..k -> S] : k \in 0..n } :
      \A i, j \in DOMAIN q : i # j => q[i] # q[j] }

\* the import lists tried: each import names a source or a target
ImportLists == DistinctSeqs(GraphNodes, MaxImports)

\* the orders in which a range over g.Nodes can deliver the nodes
NodeOrders ==
  { q \in DistinctSeqs(GraphNodes, Cardinality(GraphNodes)) :
      Len(q) = Cardinality(GraphNodes) }

\* the argument lists of IncludeDependencies tried
RequestedSeqs == UNION { [1..k -> GraphTargets] : k \in 0..MaxRequested }

\* the error calcLevel returns when it meets a node that is on its stack
CircularDependency(name) == <<"circular dependency detected involving", name>>

\* the closure calcLevel of calculateLevels, on the state st of the maps
\* visited and inStack, the levels assigned so far and the error returned
RECURSIVE calcLevelIn(_, _, _)
calcLevelIn(imports, name, st) ==
  IF name \in st.inStack
  THEN [st EXCEPT !.err = CircularDependency(name)]
  ELSE IF name \in st.visited THEN st
  ELSE IF ~IsTarget(imports, name)
  THEN [st EXCEPT !.level[name] = 0, !.visited = @ \cup {name}]
  ELSE LET RECURSIVE deps(_, _, _)
           deps(k, s1, maxDepLevel) ==
             IF k > Len(imports[name])
             THEN [s1 EXCEPT !.level[name] = maxDepLevel + 1,
                             !.visited = @ \cup {name},
                             !.inStack = @ \ {name}]
             ELSE LET dep == imports[name][k]
                      s2  == calcLevelIn(imports, dep, s1)
                  IN  IF s2.err # NoError THEN s2
                      ELSE deps(k + 1, s2,
                                IF s2.level[dep] > maxDepLevel
                                THEN s2.level[dep] ELSE maxDepLevel)
       IN  deps(1, [st EXCEPT !.inStack = @ \cup {name}], -1)

\* calculateLevels: calcLevel for every node, in map order nodeOrder,
\* returning at the first error
calculateLevels(imports, nodeOrder) ==
  LET RECURSIVE loop(_, _)
      loop(k, st) ==
        IF k > Len(nodeOrder) THEN st
        ELSE LET s2 == calcLevelIn(imports, nodeOrder[k], st)
             IN  IF s2.err # NoError THEN s2 ELSE loop(k + 1, s2)
  IN  loop(1, [ visited |-> {}, inStack |-> {},
                level |-> [n \in GraphNodes |-> 0], err |-> NoError ])

\* mutant of BuildGraphResult: the error of calculateLevels is dropped
BuildGraphResult_IgnoresError(r) ==
  [ st |-> "built", level |-> r.level, err |-> NoError ]

\* BuildGraph: (nil, err) when calculateLevels fails, else (g, nil)
BuildGraphResult(r) ==
  IF r.err # NoError
  THEN [ st |-> "error", level |-> << >>, err |-> r.err ]
  ELSE [ st |-> "built", level |-> r.level, err |-> NoError ]

\* mutant of LevelThenNameLess: the levels are not compared
LevelThenNameLess_NameOnly(level, x, y) == NameLess(x, y)

\* the comparator of the two sort.Slice calls: by Level, then by name
LevelThenNameLess(level, x, y) ==
  IF level[x] # level[y] THEN level[x] < level[y] ELSE NameLess(x, y)

\* sort.Slice with that comparator, as an insertion sort of the slice sq
RECURSIVE sortSlice(_, _)
sortSlice(level, sq) ==
  IF sq = << >> THEN << >>
  ELSE LET rest == sortSlice(level, Tail(sq))
           x    == Head(sq)
           k    == Cardinality({ i \in 1..Len(rest) :
                                   LevelThenNameLess(level, rest[i], x) })
       IN  SubSeq(rest, 1, k) \o <<x>> \o SubSeq(rest, k + 1, Len(rest))

\* sort.Strings
sortStrings(sq) == sortSlice([n \in Range(sq) |-> 0], sq)

\* Graph.TopologicalOrder: the targets in map order, then sorted
Graph_TopologicalOrder(imports, level, mapOrder) ==
  sortSlice(level, SelectSeq(mapOrder, LAMBDA n : IsTarget(imports, n)))

\* Graph.GroupByLevel: levels 0..maxLevel are the elements 1..maxLevel+1
Graph_GroupByLevel(imports, level, mapOrder) ==
  LET maxLevel == Max({0} \cup { level[t] : t \in DOMAIN imports })
  IN  [ l \in 1..(maxLevel + 1) |->
          sortStrings(SelectSeq(mapOrder,
            LAMBDA n : IsTarget(imports, n) /\ level[n] = l - 1)) ]

\* mutant of IsTargetDep: the type of the dependency is not looked at
IsTargetDep_AnyNode(imports, dep) == TRUE

\* IncludeDependencies: "Only include target dependencies, not sources"
IsTargetDep(imports, dep) == IsTarget(imports, dep)

\* the closure addDeps of IncludeDependencies on the map included
RECURSIVE addDepsIn(_, _, _)
addDepsIn(imports, name, included) ==
  IF name \in included THEN included
  ELSE IF ~IsTarget(imports, name) THEN included \cup {name}
  ELSE LET RECURSIVE over(_, _)
           over(k, inc) ==
             IF k > Len(imports[name]) THEN inc
             ELSE IF IsTargetDep(imports, imports[name][k])
                  THEN over(k + 1, addDepsIn(imports, imports[name][k], inc))
                  ELSE over(k + 1, inc)
       IN  over(1, included \cup {name})

\* Graph.IncludeDependencies: addDeps for each requested name, then the keys
\* of included in map order, then sorted
Graph_IncludeDependencies(imports, level, requested, mapOrder) ==
  LET RECURSIVE all(_, _)
      all(k, inc) == IF k > Len(requested) THEN inc
                     ELSE all(k + 1, addDepsIn(imports, requested[k], inc))
      included == all(1, {})
  IN  sortSlice(level, SelectSeq(mapOrder, LAMBDA n : n \in included))

\* BuildGraph(cfg)
BuildGraph ==
  /\ graph.st = "none"
  /\ \E nodeOrder \in NodeOrders :
       graph' = BuildGraphResult(calculateLevels(gImports, nodeOrder))
  /\ UNCHANGED << gImports, query, outsideGraph >>

\* g.TopologicalOrder()
CallTopologicalOrder ==
  /\ graph.st = "built"
  /\ query.fn = "none"
  /\ \E mapOrder \in NodeOrders :
       query' = [ fn |-> "TopologicalOrder", arg |-> << >>,
                  result |-> Graph_TopologicalOrder(gImports, graph.level,
                                                    mapOrder) ]
  /\ UNCHANGED << gImports, graph, outsideGraph >>

\* g.GroupByLevel()
CallGroupByLevel ==
  /\ graph.st = "built"
  /\ query.fn = "none"
  /\ \E mapOrder \in NodeOrders :
       query' = [ fn |-> "GroupByLevel", arg |-> << >>,
                  result |-> Graph_GroupByLevel(gImports, graph.level,
                                                mapOrder) ]
  /\ UNCHANGED << gImports, graph, outsideGraph >>

\* g.IncludeDependencies(requested)
CallIncludeDependencies ==
  /\ graph.st = "built"
  /\ query.fn = "none"
  /\ \E requested \in RequestedSeqs, mapOrder \in NodeOrders :
       query' = [ fn |-> "IncludeDependencies", arg |-> requested,
                  result |-> Graph_IncludeDependencies(gImports, graph.level,
                                                       requested, mapOrder) ]
  /\ UNCHANGED << gImports, graph, outsideGraph >>

NextGraph ==
  \/ BuildGraph
  \/ CallTopologicalOrder
  \/ CallGroupByLevel
  \/ CallIncludeDependencies

InitGraph ==
  /\ PipelineIdle
  /\ CallsInit
  /\ MergeInit
  /\ AliasInit
  /\ FnInit
  /\ gImports \in [GraphTargets -> ImportLists]
  /\ graph = NoGraph
  /\ query = NoQuery

SpecGraph == InitGraph /\ [][NextGraph]_vars

(***************************************************************************)
(* DeepMerge (pkg/utils/deepmerge.go).  A payload is a mapping from string *)
(* keys to JSON values.  A value is a record of its kind ("null",          *)
(* "number", "string", "list", "map") and its content: the text of a       *)
(* scalar, the sequence of the elements of a list, the function from keys  *)
(* to values of a map.  A nil map is the empty mapping.                    *)
(***************************************************************************)

\* the variables DeepMerge does not change
outsideMerge == << pipelineVars, callVars, graphVars, aliasVars, fnVars >>

Null == [ kind |-> "null", val |-> "null" ]

\* the scalars tried
Atoms ==
  { [kind |-> "number", val |-> "1"], [kind |-> "string", val |-> "x"],
    [kind |-> "string", val |-> "y"] }

\* the sequences tried: up to MaxLen strings, repetitions included
ListValues ==
  { [kind |-> "list", val |-> q] :
      q \in UNION { [1..n -> { a \in Atoms : a.kind = "string" }] :
                      n \in 0..MaxLen } }

\* the values without a mapping inside
FlatValues == {Null} \cup Atoms \cup ListValues

\* the mappings from some of the keys to values of V
MapsOver(keys, V) == UNION { [ks -> V] : ks \in SUBSET keys }

\* the values tried under a key of a payload
PayloadValues ==
  FlatValues
    \cup { [kind |-> "map", val |-> f] : f \in MapsOver({"j", "k"}, FlatValues) }

\* the payloads tried
Payloads == MapsOver({"k"}, PayloadValues)

\* deepCopyValue: a copy of the value, rebuilt element by element
RECURSIVE deepCopyValue(_)
deepCopyValue(v) ==
  CASE v.kind = "map" ->
         [ kind |-> "map",
           val |-> [k \in DOMAIN v.val |-> deepCopyValue(v.val[k])] ]
    [] v.kind = "list" ->
         [ kind |-> "list",
           val |-> [i \in 1..Len(v.val) |-> deepCopyValue(v.val[i])] ]
    [] OTHER -> v

\* mutant of appendSlices: the elements of src come first
appendSlices_SrcFirst(dst, src) ==
  [ i \in 1..(Len(dst) + Len(src)) |->
      IF i <= Len(src) THEN src[i] ELSE dst[i - Len(src)] ]

\* appendSlices: copies of the elements of dst, then of the elements of src
appendSlices(dst, src) ==
  [ i \in 1..(Len(dst) + Len(src)) |->
      IF i <= Len(dst) THEN deepCopyValue(dst[i])
      ELSE deepCopyValue(src[i - Len(dst)]) ]

\* mutant of SrcIsNil: a null in src is a value like any other
SrcIsNil_Never(src) == FALSE

\* mergeValues: "if src == nil"
SrcIsNil(src) == src.kind = "null"

RECURSIVE DeepMerge(_, _)
RECURSIVE mergeValues(_, _)

\* mergeValues: by the kind of src, then of dst
mergeValues(dst, src) ==
  IF SrcIsNil(src) THEN dst
  ELSE IF dst.kind = "null" THEN deepCopyValue(src)
  ELSE IF src.kind = "map"
       THEN IF dst.kind = "map"
            THEN [ kind |-> "map", val |-> DeepMerge(dst.val, src.val) ]
            ELSE deepCopyValue(src)
  ELSE IF src.kind = "list"
       THEN IF dst.kind = "list"
            THEN [ kind |-> "list", val |-> appendSlices(dst.val, src.val) ]
            ELSE deepCopyValue(src)
  ELSE deepCopyValue(src)

\* DeepMerge: every key of src is set in dst, merged when dst has it
DeepMerge(dst, src) ==
  [ k \in DOMAIN dst \cup DOMAIN src |->
      IF k \notin DOMAIN src THEN dst[k]
      ELSE IF k \notin DOMAIN dst THEN deepCopyValue(src[k])
      ELSE mergeValues(dst[k], src[k]) ]

\* DeepMerge(dst, src) is called
CallDeepMerge ==
  /\ mergeOut.st = "none"
  /\ mergeOut' = [ st |-> "merged", val |-> DeepMerge(mergeDst, mergeSrc) ]
  /\ UNCHANGED << mergeDst, mergeSrc, outsideMerge >>

NextMerge == CallDeepMerge

InitMerge ==
  /\ PipelineIdle
  /\ CallsInit
  /\ GraphInit
  /\ mergeDst \in Payloads
  /\ mergeSrc \in Payloads
  /\ mergeOut = NotMerged
  /\ AliasInit
  /\ FnInit

SpecMerge == InitMerge /\ [][NextMerge]_vars

(***************************************************************************)
(* DeepMerge on the memory it works on.  A Go map or slice is a reference: *)
(* the heap holds the mappings and sequences by address, and a value is a  *)
(* scalar or the address of one of them.  DeepMerge writes into the        *)
(* mapping at the address of dst and returns that address.                 *)
(***************************************************************************)

\* the variables the memory steps do not change
outsideAlias == << pipelineVars, callVars, graphVars, mergeOut, fnVars >>

\* a scalar held in a mapping or a sequence
Scalar(v) == [ kind |-> v.kind, val |-> v.val, addr |-> 0 ]

\* a reference to the mapping or sequence at address a
Ref(a) == [ kind |-> "ref", val |-> "ref", addr |-> a ]

\* a map[string]interface{} on the heap
MapObj(m) == [ kind |-> "map", m |-> m, l |-> << >> ]

\* a []interface{} on the heap
ListObj(l) == [ kind |-> "list", m |-> EmptyMap, l |-> l ]

\* make(...): the heap with one more object, and the reference to it
Alloc(h, obj) == [ h |-> Append(h, obj), v |-> Ref(Len(h) + 1) ]

IsMapRef(h, x) == x.kind = "ref" /\ h[x.addr].kind = "map"

IsListRef(h, x) == x.kind = "ref" /\ h[x.addr].kind = "list"

\* the payload v as the JSON decoder lays it out: one object per mapping and
\* per sequence, none of them shared
RECURSIVE Store(_, _)
RECURSIVE StoreKeys(_, _, _, _)
RECURSIVE StoreElems(_, _, _, _)

StoreKeys(h, f, keys, acc) ==
  IF keys = {} THEN [ h |-> h, v |-> acc ]
  ELSE LET k == CHOOSE x \in keys : TRUE
           r == Store(h, f[k])
       IN  StoreKeys(r.h, f, keys \ {k}, (k :> r.v) @@ acc)

StoreElems(h, q, i, acc) ==
  IF i > Len(q) THEN [ h |-> h, v |-> acc ]
  ELSE LET r == Store(h, q[i])
       IN  StoreElems(r.h, q, i + 1, Append(acc, r.v))

Store(h, v) ==
  CASE v.kind = "map" ->
         LET r == StoreKeys(h, v.val, DOMAIN v.val, EmptyMap)
         IN  Alloc(r.h, MapObj(r.v))
    [] v.kind = "list" ->
         LET r == StoreElems(h, v.val, 1, << >>)
         IN  Alloc(r.h, ListObj(r.v))
    [] OTHER -> [ h |-> h, v |-> Scalar(v) ]

\* the payload found at the value x of the heap h
RECURSIVE Contents(_, _)
Contents(h, x) ==
  IF IsMapRef(h, x)
  THEN [ kind |-> "map",
         val |-> [k \in DOMAIN h[x.addr].m |-> Contents(h, h[x.addr].m[k])] ]
  ELSE IF IsListRef(h, x)
  THEN [ kind |-> "list",
         val |-> [i \in 1..Len(h[x.addr].l) |-> Contents(h, h[x.addr].l[i])] ]
  ELSE [ kind |-> x.kind, val |-> x.val ]

\* the addresses reached from the value x
RECURSIVE Reach(_, _)
Reach(h, x) ==
  IF IsMapRef(h, x)
  THEN {x.addr} \cup UNION { Reach(h, h[x.addr].m[k]) : k \in DOMAIN h[x.addr].m }
  ELSE IF IsListRef(h, x)
  THEN {x.addr} \cup UNION { Reach(h, h[x.addr].l[i]) : i \in 1..Len(h[x.addr].l) }
  ELSE {}

RECURSIVE deepCopyValueAt(_, _)
RECURSIVE copyKeys(_, _, _, _)
RECURSIVE copyElems(_, _, _, _)

\* deepCopyValue, map case: "for k, val := range typed"
copyKeys(h, f, keys, acc) ==
  IF keys = {} THEN [ h |-> h, v |-> acc ]
  ELSE LET k == CHOOSE x \in keys : TRUE
           r == deepCopyValueAt(h, f[k])
       IN  copyKeys(r.h, f, keys \ {k}, (k :> r.v) @@ acc)

\* deepCopyValue, slice case, and the two loops of appendSlices
copyElems(h, q, i, acc) ==
  IF i > Len(q) THEN [ h |-> h, v |-> acc ]
  ELSE LET r == deepCopyValueAt(h, q[i])
       IN  copyElems(r.h, q, i + 1, Append(acc, r.v))

\* deepCopyValue: a new object for a mapping or a sequence, the scalar itself
deepCopyValueAt(h, x) ==
  IF IsMapRef(h, x)
  THEN LET r == copyKeys(h, h[x.addr].m, DOMAIN h[x.addr].m, EmptyMap)
       IN  Alloc(r.h, MapObj(r.v))
  ELSE IF IsListRef(h, x)
  THEN LET r == copyElems(h, h[x.addr].l, 1, << >>)
       IN  Alloc(r.h, ListObj(r.v))
  ELSE [ h |-> h, v |-> x ]

\* appendSlices: a new sequence of copies
appendSlicesAt(h, da, sa) ==
  LET r1 == copyElems(h, h[da].l, 1, << >>)
      r2 == copyElems(r1.h, h[sa].l, 1, r1.v)
  IN  Alloc(r2.h, ListObj(r2.v))

RECURSIVE DeepMergeAt(_, _, _)
RECURSIVE mergeKeysAt(_, _, _, _)
RECURSIVE mergeValuesAt(_, _, _)

\* mergeValues
mergeValuesAt(h, d, s) ==
  IF s.kind = "null" THEN [ h |-> h, v |-> d ]
  ELSE IF d.kind = "null" THEN deepCopyValueAt(h, s)
  ELSE IF IsMapRef(h, s)
       THEN IF IsMapRef(h, d) THEN DeepMergeAt(h, d.addr, s.addr)
            ELSE deepCopyValueAt(h, s)
  ELSE IF IsListRef(h, s)
       THEN IF IsListRef(h, d) THEN appendSlicesAt(h, d.addr, s.addr)
            ELSE deepCopyValueAt(h, s)
  ELSE deepCopyValueAt(h, s)

\* DeepMerge, "for key, srcVal := range src": dst[key] is assigned in the
\* mapping at da.  The keys are independent, so the order the map iteration
\* takes them in does not show in the contents.
mergeKeysAt(h, da, sa, keys) ==
  IF keys = {} THEN [ h |-> h, v |-> Ref(da) ]
  ELSE LET k == CHOOSE x \in keys : TRUE
           r == IF k \notin DOMAIN h[da].m
                THEN deepCopyValueAt(h, h[sa].m[k])
                ELSE mergeValuesAt(h, h[da].m[k], h[sa].m[k])
           h2 == [ r.h EXCEPT ![da].m = (k :> r.v) @@ @ ]
       IN  mergeKeysAt(h2, da, sa, keys \ {k})

\* DeepMerge(dst, src) for two mappings that are not nil: returns dst
DeepMergeAt(h, da, sa) == mergeKeysAt(h, da, sa, DOMAIN h[sa].m)

\* what a caller writes into a mapping or a sequence
Marker == [ kind |-> "string", val |-> "z", addr |-> 0 ]

\* merged = DeepMerge(dst, src)
CallDeepMergeAt ==
  /\ outRef = 0
  /\ LET r == DeepMergeAt(heap, dstRef, srcRef)
     IN  /\ heap' = r.h
         /\ outRef' = r.v.addr
  /\ UNCHANGED << dstRef, srcRef, mutated, mergeDst, mergeSrc, outsideAlias >>

\* the caller sets a key of a mapping found inside merged
MutateMap(a) ==
  /\ outRef # 0 /\ ~mutated
  /\ a \in Reach(heap, Ref(outRef))
  /\ heap[a].kind = "map"
  /\ heap' = [ heap EXCEPT ![a].m = ("k" :> Marker) @@ @ ]
  /\ mutated' = TRUE
  /\ UNCHANGED << dstRef, srcRef, outRef, mergeDst, mergeSrc, outsideAlias >>

\* the caller sets an element of a sequence found inside merged
MutateList(a) ==
  /\ outRef # 0 /\ ~mutated
  /\ a \in Reach(heap, Ref(outRef))
  /\ heap[a].kind = "list"
  /\ Len(heap[a].l) > 0
  /\ heap' = [ heap EXCEPT ![a].l[1] = Marker ]
  /\ mutated' = TRUE
  /\ UNCHANGED << dstRef, srcRef, outRef, mergeDst, mergeSrc, outsideAlias >>

NextAlias ==
  \/ CallDeepMergeAt
  \/ \E a \in 1..Len(heap) : MutateMap(a)
  \/ \E a \in 1..Len(heap) : MutateList(a)

\* dst and src are two decoded payloads; mergeDst and mergeSrc keep what they
\* held when DeepMerge was called
InitAlias ==
  /\ PipelineIdle
  /\ CallsInit
  /\ GraphInit
  /\ mergeDst \in Payloads
  /\ mergeSrc \in Payloads
  /\ mergeOut = NotMerged
  /\ LET d == Store(<< >>, [kind |-> "map", val |-> mergeDst])
         s == Store(d.h, [kind |-> "map", val |-> mergeSrc])
     IN  /\ heap = s.h
         /\ dstRef = d.v.addr
         /\ srcRef = s.v.addr
  /\ outRef = 0
  /\ mutated = FALSE
  /\ FnInit

SpecAlias == InitAlias /\ [][NextAlias]_vars

(***************************************************************************)
(* Functions studied on their own: each has a specification whose initial  *)
(* states draw the arguments and whose action makes the call.              *)
(***************************************************************************)

\* the variables a call of a function studied on its own does not change
outsideFn == << pipelineVars, callVars, graphVars, mergeVars, aliasVars >>

\* every variable but fnArgs and fnResult is in its quiet state
QuietButFn ==
  /\ PipelineIdle
  /\ CallsInit
  /\ GraphInit
  /\ MergeInit
  /\ AliasInit

(***************************************************************************)
(* Diff engine (pkg/diff): DiffSecrets, ComputeSummary.  The key lists and *)
(* hashes of a change record are not modelled.                             *)
(***************************************************************************)

\* secret paths, in the order of the strings
PathNames == << "p", "q", "r", "s" >>

DiffPaths == { PathNames[i] : i \in 1..MaxPaths }

PathLess(x, y) ==
  (CHOOSE i \in DOMAIN PathNames : PathNames[i] = x)
    < (CHOOSE i \in DOMAIN PathNames : PathNames[i] = y)

\* a secret with one key
Secret(v) == [ kind |-> "map", val |-> ("k" :> v) ]

\* the secrets read from the destination: decoded JSON, numbers are float64
CurrentSecrets ==
  { Secret([kind |-> "number", val |-> "1"]),
    Secret([kind |-> "string", val |-> "x"]) }

\* the secrets computed by the pipeline: a number may be held as an int
DesiredSecrets ==
  { Secret([kind |-> "int", val |-> "1"]),
    Secret([kind |-> "string", val |-> "x"]) }

\* the orders in which the two range loops can deliver the paths: the first
\* loop ranges over desired and the second emits only for paths outside
\* desired, so one order of all the paths gives every combination
PathOrders ==
  { q \in DistinctSeqs(DiffPaths, MaxPaths) : Len(q) = MaxPaths }

\* normalizeValue: int, int32, int64 become float64, inside maps and slices
RECURSIVE normalizeValue(_)
normalizeValue(v) ==
  CASE v.kind = "map" ->
         [ kind |-> "map",
           val |-> [k \in DOMAIN v.val |-> normalizeValue(v.val[k])] ]
    [] v.kind = "list" ->
         [ kind |-> "list",
           val |-> [i \in 1..Len(v.val) |-> normalizeValue(v.val[i])] ]
    [] v.kind = "int" -> [ kind |-> "number", val |-> v.val ]
    [] OTHER -> v

\* utils.DeepEqual
DeepEqual(a, b) == normalizeValue(a) = normalizeValue(b)

\* mutant of Seen: the second loop of DiffSecrets forgets the first
Seen_Never(desired, path) == FALSE

\* DiffSecrets: seen[path], set for every path of desired
Seen(desired, path) == path \in DOMAIN desired

\* DiffSecrets: the record appended for a path of desired
DesiredChange(current, desired, path) ==
  [ path |-> path,
    changeType |->
      IF path \notin DOMAIN current THEN "added"
      ELSE IF DeepEqual(current[path], desired[path]) THEN "unchanged"
      ELSE "modified" ]

\* sort.Slice by Path, as an insertion sort
RECURSIVE sortByPath(_)
sortByPath(sq) ==
  IF sq = << >> THEN << >>
  ELSE LET rest == sortByPath(Tail(sq))
           x    == Head(sq)
           k    == Cardinality({ i \in 1..Len(rest) :
                                   PathLess(rest[i].path, x.path) })
       IN  SubSeq(rest, 1, k) \o <<x>> \o SubSeq(rest, k + 1, Len(rest))

\* DiffSecrets, with the order the range loops deliver the paths in
DiffSecrets(current, desired, order) ==
  LET inDesired == SelectSeq(order, LAMBDA p : p \in DOMAIN desired)
      inCurrent == SelectSeq(order, LAMBDA p : p \in DOMAIN current)
      first  == [ i \in 1..Len(inDesired) |->
                    DesiredChange(current, desired, inDesired[i]) ]
      gone   == SelectSeq(inCurrent, LAMBDA p : ~Seen(desired, p))
      second == [ i \in 1..Len(gone) |->
                    [ path |-> gone[i], changeType |-> "removed" ] ]
  IN  sortByPath(first \o second)

\* the number of records of changes with the change type ct
CountOf(changes, ct) ==
  Cardinality({ i \in 1..Len(changes) : changes[i].changeType = ct })

\* ComputeSummary
ComputeSummary(changes) ==
  [ added     |-> CountOf(changes, "added"),
    removed   |-> CountOf(changes, "removed"),
    modified  |-> CountOf(changes, "modified"),
    unchanged |-> CountOf(changes, "unchanged"),
    total     |-> Len(changes) ]

\* changes := DiffSecrets(current, desired); summary := ComputeSummary(changes)
CallDiffSecrets ==
  /\ fnArgs.fn = "DiffSecrets"
  /\ fnResult = NoCall
  /\ \E order \in PathOrders :
       LET changes == DiffSecrets(fnArgs.current, fnArgs.desired, order)
       IN  fnResult' = [ fn |-> "DiffSecrets",
                         changes |-> changes,
                         summary |-> ComputeSummary(changes) ]
  /\ UNCHANGED << fnArgs, outsideFn >>

NextDiff == CallDiffSecrets

InitDiff ==
  /\ QuietButFn
  /\ \E c \in MapsOver(DiffPaths, CurrentSecrets),
        d \in MapsOver(DiffPaths, DesiredSecrets) :
       fnArgs = [ fn |-> "DiffSecrets", current |-> c, desired |-> d ]
  /\ fnResult = NoCall

SpecDiff == InitDiff /\ [][NextDiff]_vars

(***************************************************************************)
(* Exit code of "vss pipeline --exit-code" (cmd/vss/cmd/validate.go,       *)
(* pkg/diff).  Pipeline.ExitCode is written from the specification: 2 when *)
(* the run ended with an error, otherwise the exit code of the diff.       *)
(***************************************************************************)

\* the summaries ComputeSummary can return with at most one secret of a kind
TargetSummaries ==
  { [ added |-> a, removed |-> r, modified |-> m, unchanged |-> u,
      total |-> a + r + m + u ] :
      a \in 0..1, r \in 0..1, m \in 0..1, u \in 0..1 }

\* var summary ChangeSummary
ZeroSummary ==
  [ added |-> 0, removed |-> 0, modified |-> 0, unchanged |-> 0, total |-> 0 ]

\* mutant of IsZeroSum: a modified secret does not count as a change
IsZeroSum_IgnoresModified(s) == s.added = 0 /\ s.removed = 0

\* ChangeSummary.IsZeroSum
IsZeroSum(s) == s.added = 0 /\ s.removed = 0 /\ s.modified = 0

\* PipelineDiff.ExitCode
PipelineDiff_ExitCode(summary) == IF IsZeroSum(summary) THEN 0 ELSE 1

\* PipelineDiff.AddTargetDiff, on the summary of the pipeline diff
AddedSummary(summary, td) ==
  [ added     |-> summary.added + td.added,
    removed   |-> summary.removed + td.removed,
    modified  |-> summary.modified + td.modified,
    unchanged |-> summary.unchanged + td.unchanged,
    total     |-> summary.total + td.total ]

\* Pipeline.ExitCode
Pipeline_ExitCode(runError, summary) ==
  IF runError THEN 2 ELSE PipelineDiff_ExitCode(summary)

\* the diff of the next target is added to the pipeline diff
AddTargetDiff ==
  /\ fnArgs.fn = "runPipeline"
  /\ fnResult.exit = -1
  /\ fnResult.added < Len(fnArgs.targets)
  /\ fnResult' = [ fnResult EXCEPT
                     !.added = @ + 1,
                     !.summary = AddedSummary(@, fnArgs.targets[fnResult.added + 1]) ]
  /\ UNCHANGED << fnArgs, outsideFn >>

\* runPipeline, "if exitCodeMode": the process exits with p.ExitCode(), and
\* with 0 by returning nil when that is 0
ExitUnderExitCode ==
  /\ fnArgs.fn = "runPipeline"
  /\ fnResult.exit = -1
  /\ fnResult.added = Len(fnArgs.targets)
  /\ fnResult' = [ fnResult EXCEPT
                     !.exit = Pipeline_ExitCode(fnArgs.runError, fnResult.summary) ]
  /\ UNCHANGED << fnArgs, outsideFn >>

NextExit == AddTargetDiff \/ ExitUnderExitCode

InitExit ==
  /\ QuietButFn
  /\ \E tds \in UNION { [1..n -> TargetSummaries] : n \in 0..MaxDiffTargets },
        e \in BOOLEAN :
       fnArgs = [ fn |-> "runPipeline", targets |-> tds, runError |-> e ]
  /\ fnResult = [ fn |-> "runPipeline", added |-> 0, summary |-> ZeroSummary,
                  exit |-> -1 ]

SpecExit == InitExit /\ [][NextExit]_vars

(***************************************************************************)
(* Doppler store driver (stores/doppler): WriteSecret against the secrets  *)
(* of one Doppler config.  The remote side is the map from secret name to  *)
(* the text stored, and the number of update requests it has served.       *)
(***************************************************************************)

\* the keys of the payloads written
DopplerKeys == {"j", "k"}

\* strings.ToUpper on those keys
ToUpper == [ k \in DopplerKeys |-> IF k = "j" THEN "J" ELSE "K" ]

\* transformName: upper case unless name_transform is "none" (or "lower",
\* which leaves these keys as they are)
transformName(nameTransform, name) ==
  IF nameTransform = "none" THEN name ELSE ToUpper[name]

\* the values a key of a written payload can hold
DopplerValues ==
  { Null,
    [kind |-> "string", val |-> ""],
    [kind |-> "string", val |-> "x"],
    [kind |-> "number", val |-> "1"],
    [kind |-> "list", val |-> << [kind |-> "string", val |-> "x"] >>] }

\* WriteSecret: "if v == nil || v == \"\""
IsEmptyValue(v) == v.kind = "null" \/ (v.kind = "string" /\ v.val = "")

\* WriteSecret: the text sent for a value: the string itself, the JSON
\* encoding of a map or a slice, fmt.Sprintf("%v") of anything else
DopplerText(v) ==
  CASE v.kind = "string" -> [ enc |-> "raw", of |-> v ]
    [] v.kind \in {"map", "list"} -> [ enc |-> "json", of |-> v ]
    [] OTHER -> [ enc |-> "sprintf", of |-> v ]

\* WriteSecret: dopplerSecrets, the non-empty values under transformed names
dopplerSecrets(nameTransform, secrets) ==
  LET kept == { k \in DOMAIN secrets : ~IsEmptyValue(secrets[k]) }
      names == { transformName(nameTransform, k) : k \in kept }
  IN  [ n \in names |->
          DopplerText(secrets[CHOOSE k \in kept :
                                transformName(nameTransform, k) = n]) ]

\* the update endpoint: merge=true keeps the secrets not named in the
\* request, otherwise the request replaces all the secrets of the config
RemoteAfterPost(remote, merge, sent) ==
  IF merge THEN sent @@ remote ELSE sent

\* the states of the remote config tried
RemoteConfigs ==
  { EmptyMap,
    ("K" :> [enc |-> "raw", of |-> [kind |-> "string", val |-> "x"]]),
    ("OLD" :> [enc |-> "raw", of |-> [kind |-> "string", val |-> "y"]]) }

\* DopplerClient.WriteSecret(ctx, meta, path, bSecrets): nothing is read
\* back; one update request unless dopplerSecrets is empty
Doppler_WriteSecret ==
  /\ fnArgs.fn = "Doppler"
  /\ fnResult.writes < fnArgs.times
  /\ LET sent == dopplerSecrets(fnArgs.nameTransform, fnArgs.secrets)
     IN  IF DOMAIN sent = {}
         THEN fnResult' = [ fnResult EXCEPT !.writes = @ + 1 ]
         ELSE fnResult' = [ fnResult EXCEPT
                              !.writes = @ + 1,
                              !.posts = @ + 1,
                              !.remote = RemoteAfterPost(@, fnArgs.merge, sent) ]
  /\ UNCHANGED << fnArgs, outsideFn >>

NextDoppler == Doppler_WriteSecret

InitDoppler ==
  /\ QuietButFn
  /\ \E p \in MapsOver(DopplerKeys, DopplerValues),
        mg \in BOOLEAN, nt \in {"upper", "none"}, rc \in RemoteConfigs :
       /\ fnArgs = [ fn |-> "Doppler", secrets |-> p, merge |-> mg,
                     nameTransform |-> nt, times |-> MaxWrites ]
       /\ fnResult = [ fn |-> "Doppler", remote |-> rc, posts |-> 0,
                       writes |-> 0 ]

SpecDoppler == InitDoppler /\ [][NextDoppler]_vars

(***************************************************************************)
(* Dynamic target discovery (discovery.go): one pass of the loop of        *)
(* DiscoverTargets over a dynamic target, on the map discoveredTargets the *)
(* earlier passes have left.  A target name is a base string and the       *)
(* pieces appended to it after an underscore.                              *)
(***************************************************************************)

\* account IDs, and their first six characters
AccountIDs == {"111111a", "222222a", "222222b"}

Prefix6 == [ id \in AccountIDs |-> IF id = "111111a" THEN "111111" ELSE "222222" ]

\* sanitizeTargetName on the account names tried
SanitizeTable == [ n \in {"", "x", "x!"} |-> IF n = "" THEN "" ELSE "x" ]

sanitizeTargetName(name) == SanitizeTable[name]

\* the accounts Identity Center and Organizations can return
NamedAccounts == { [id |-> i, name |-> n] : i \in AccountIDs, n \in {"x", "x!"} }

\* the IDs an external list can hold: it is not checked, and "12" is shorter
\* than the six characters the suffix takes
ListedIDs == AccountIDs \cup {"12"}

\* the accounts an external list can hold: with a name, or an ID alone
ListedAccounts == { [id |-> i, name |-> n] : i \in ListedIDs, n \in {"", "x"} }

\* what one discoverer of a dynamic target does: not configured, fails, or
\* returns up to MaxFound accounts
DiscovererResults(A) ==
  { [st |-> "nil", accounts |-> << >>], [st |-> "fail", accounts |-> << >>] }
    \cup { [st |-> "ok", accounts |-> q] :
             q \in UNION { [1..n -> A] : n \in 0..MaxFound } }

\* the name of a target, as a base and appended pieces
TargetName(base, sfx) == [ base |-> base, sfx |-> sfx ]

\* the fields of a discovered target: the account, and the dynamic target
\* whose imports, region, prefix and role ARN template it carries
DiscoveredTarget(id, dyn) == [ accountID |-> id, dyn |-> dyn ]

\* the map left by an earlier dynamic target that found one account
PriorTargets ==
  { EmptyMap,
    (TargetName("x", << >>) :> DiscoveredTarget("111111a", "d0")) }

\* isExcluded
isExcluded(accountID, excludeList) ==
  \E i \in 1..Len(excludeList) : excludeList[i] = accountID

\* deduplicateAccounts: the first account of every ID, in order
RECURSIVE deduplicateAccounts(_)
deduplicateAccounts(accounts) ==
  IF accounts = << >> THEN << >>
  ELSE LET front == deduplicateAccounts(SubSeq(accounts, 1, Len(accounts) - 1))
           a     == accounts[Len(accounts)]
       IN  IF \E i \in 1..Len(front) : front[i].id = a.id
           THEN front ELSE Append(front, a)

\* DiscoverTargets: the target name chosen for an account, given the targets
\* discovered so far
NameFor(discovered, acct) ==
  LET s == sanitizeTargetName(acct.name)
      n == IF s = "" THEN TargetName("account", << acct.id >>)
           ELSE TargetName(s, << >>)
  IN  IF n \in DOMAIN discovered
      THEN TargetName(n.base, Append(n.sfx, Prefix6[acct.id]))
      ELSE n

\* DiscoverTargets: the name is taken and "acct.ID[:6]" slices past the end
\* of the ID
SuffixPanics(discovered, acct) ==
  LET s == sanitizeTargetName(acct.name)
      n == IF s = "" THEN TargetName("account", << acct.id >>)
           ELSE TargetName(s, << >>)
  IN  n \in DOMAIN discovered /\ acct.id \notin DOMAIN Prefix6

\* DiscoverTargets: "for _, acct := range accounts": the map of targets, or
\* the panic of the suffix
RECURSIVE convertAccounts(_, _, _, _)
convertAccounts(discovered, accounts, exclude, dyn) ==
  IF accounts = << >> THEN [ targets |-> discovered, panic |-> FALSE ]
  ELSE LET acct == Head(accounts)
       IN  IF isExcluded(acct.id, exclude)
           THEN convertAccounts(discovered, Tail(accounts), exclude, dyn)
           ELSE IF SuffixPanics(discovered, acct)
           THEN [ targets |-> discovered, panic |-> TRUE ]
           ELSE convertAccounts(
                  (NameFor(discovered, acct) :> DiscoveredTarget(acct.id, dyn))
                    @@ discovered,
                  Tail(accounts), exclude, dyn)

\* DiscoverTargets: one pass of "for dynamicName, dynamicTarget := range"
discoverOne(discovered, dt) ==
  IF \E r \in {dt.identityCenter, dt.organizations, dt.accountsList} :
       r.st = "fail"
  THEN [ targets |-> discovered, panic |-> FALSE ]
  ELSE convertAccounts(discovered,
         deduplicateAccounts(dt.identityCenter.accounts
                               \o dt.organizations.accounts
                               \o dt.accountsList.accounts),
         dt.exclude, "d1")

\* the dynamic target d1 is processed
CallDiscoverTargets ==
  /\ fnArgs.fn = "DiscoverTargets"
  /\ fnResult = NoCall
  /\ LET r == discoverOne(fnArgs.prior, fnArgs.dt)
     IN  fnResult' = [ fn |-> "DiscoverTargets", targets |-> r.targets,
                       panic |-> r.panic ]
  /\ UNCHANGED << fnArgs, outsideFn >>

NextDiscover == CallDiscoverTargets

InitDiscover ==
  /\ QuietButFn
  /\ \E ic \in DiscovererResults(NamedAccounts),
        org \in DiscovererResults(NamedAccounts),
        al \in DiscovererResults(ListedAccounts),
        ex \in { << >>, << "222222a" >> },
        prior \in PriorTargets :
       fnArgs = [ fn |-> "DiscoverTargets",
                  dt |-> [ identityCenter |-> ic, organizations |-> org,
                           accountsList |-> al, exclude |-> ex ],
                  prior |-> prior ]
  /\ fnResult = NoCall

SpecDiscover == InitDiscover /\ [][NextDiscover]_vars

(***************************************************************************)
(* External account list (discovery.go, getAccountsFromSSM).  A parameter  *)
(* value is given by its format and its items: a JSON array of objects     *)
(* with id and name, a JSON array of strings, or strings joined by commas. *)
(***************************************************************************)

\* the strings tried as IDs and list entries
EntryStrings == {"", " ", "111111a", " 111111a"}

\* strings.TrimSpace on those strings
TrimSpace == [ s \in EntryStrings |->
                 CASE s = " " -> "" [] s = " 111111a" -> "111111a" [] OTHER -> s ]

\* the sequences of at most MaxItems elements of S
SeqsUpTo(S) == UNION { [1..n -> S] : n \in 0..MaxItems }

\* the parameter values tried
ParamValues ==
  { [format |-> "objects", items |-> q] :
      q \in SeqsUpTo({ [id |-> i, name |-> n] :
                         i \in {"", "111111a"}, n \in {"", "x"} }) }
  \cup { [format |-> f, items |-> q] :
           f \in {"strings", "csv"}, q \in SeqsUpTo(EntryStrings) }

\* the text of the value is empty once trimmed: a comma-separated list of
\* no entry, or of one blank entry
IsBlankValue(v) ==
  /\ v.format = "csv"
  /\ \/ v.items = << >>
     \/ Len(v.items) = 1 /\ TrimSpace[v.items[1]] = ""

\* the entries of a list that are not blank, trimmed, as accounts
TrimmedAccounts(items) ==
  LET kept == SelectSeq(items, LAMBDA s : TrimSpace[s] # "")
  IN  [ i \in 1..Len(kept) |-> [ id |-> TrimSpace[kept[i]], name |-> "" ] ]

\* the text of an array of objects split at its commas: two pieces of JSON
\* text for an object, none of them blank
FragmentAccounts(items) ==
  [ i \in 1..(2 * Len(items)) |-> [ id |-> "json fragment", name |-> "" ] ]

\* getAccountsFromSSM: the value parses as an array of objects, the array is
\* not empty and the ID of its first object is not empty
ObjectArrayAccepted(v) ==
  v.format = "objects" /\ Len(v.items) > 0 /\ v.items[1].id # ""

\* getAccountsFromSSM, after the parameter has been read
getAccountsFromSSM(v) ==
  IF IsBlankValue(v) THEN [ err |-> TRUE, accounts |-> << >> ]
  ELSE IF ObjectArrayAccepted(v)
       THEN [ err |-> FALSE, accounts |-> v.items ]
  ELSE IF v.format = "strings" \/ (v.format = "objects" /\ v.items = << >>)
       THEN [ err |-> FALSE,
              accounts |-> IF v.format = "strings"
                           THEN TrimmedAccounts(v.items) ELSE << >> ]
  ELSE IF v.format = "objects"
       THEN [ err |-> FALSE, accounts |-> FragmentAccounts(v.items) ]
  ELSE [ err |-> FALSE, accounts |-> TrimmedAccounts(v.items) ]

\* the parameter is read and parsed
CallGetAccountsFromSSM ==
  /\ fnArgs.fn = "getAccountsFromSSM"
  /\ fnResult = NoCall
  /\ fnResult' = [ fn |-> "getAccountsFromSSM",
                   out |-> getAccountsFromSSM(fnArgs.value) ]
  /\ UNCHANGED << fnArgs, outsideFn >>

NextParse == CallGetAccountsFromSSM

InitParse ==
  /\ QuietButFn
  /\ \E v \in ParamValues : fnArgs = [ fn |-> "getAccountsFromSSM", value |-> v ]
  /\ fnResult = NoCall

SpecParse == InitParse /\ [][NextParse]_vars

(***************************************************************************)
(* Config.Validate (config.go)                                             *)
(***************************************************************************)

\* account_id values: missing, not 12 digits, 12 digits
ValidateAccountIDs == {"", "12345", "111111111111"}

\* isValidAWSAccountID on those values
isValidAWSAccountID(accountID) == accountID = "111111111111"

\* the import lists tried in Validate: "zz" names nothing
ValidateImports ==
  { << >>, << "s1" >>, << "a" >>, << "b" >>, << "zz" >>, << "s1", "a" >> }

\* the targets tried
ValidateTargets ==
  MapsOver({"a", "b"},
           { [accountID |-> i, imports |-> q] :
               i \in ValidateAccountIDs, q \in ValidateImports })

\* merge_store: neither store, a vault mount, a bucket, s3 without a bucket
ValidateMergeStores ==
  { [vault |-> FALSE, s3 |-> FALSE, bucket |-> ""],
    [vault |-> TRUE,  s3 |-> FALSE, bucket |-> ""],
    [vault |-> FALSE, s3 |-> TRUE,  bucket |-> "my-bucket"],
    [vault |-> FALSE, s3 |-> TRUE,  bucket |-> ""] }

\* dynamic_targets: none, one with a discoverer, one without any
ValidateDynamic ==
  { EmptyMap, ("d1" :> [discovery |-> TRUE]), ("d1" :> [discovery |-> FALSE]) }

\* the configurations tried
ValidateConfigs ==
  { [ vaultAddress |-> va, mergeStore |-> ms, sources |-> ss, targets |-> ts,
      dynamicTargets |-> ds ] :
      va \in {"", "https://vault"}, ms \in ValidateMergeStores,
      ss \in SUBSET {"s1"}, ts \in ValidateTargets, ds \in ValidateDynamic }

\* Validate: the error for one target, "" when it has none
TargetError(c, name) ==
  LET target == c.targets[name]
  IN  IF target.accountID = "" THEN "account_id is required"
      ELSE IF ~isValidAWSAccountID(target.accountID)
           THEN "invalid account_id format"
      ELSE IF \E i \in 1..Len(target.imports) :
                /\ target.imports[i] \notin c.sources
                /\ target.imports[i] \notin DOMAIN c.targets
           THEN "import not found in sources or targets"
      ELSE ""

\* Validate: the loop over c.Targets, in the order the map delivers them
RECURSIVE FirstTargetError(_, _)
FirstTargetError(c, order) ==
  IF order = << >> THEN ""
  ELSE IF TargetError(c, Head(order)) # "" THEN TargetError(c, Head(order))
  ELSE FirstTargetError(c, Tail(order))

\* Validate: "c.MergeStore.Vault == nil && c.MergeStore.S3 == nil"
NoMergeStore(c) == ~c.mergeStore.vault /\ ~c.mergeStore.s3

\* Config.Validate: the error returned, "" for nil
Validate(c, order) ==
  IF c.vaultAddress = "" THEN "vault.address is required"
  ELSE IF NoMergeStore(c) THEN "merge_store must specify either vault or s3"
  ELSE IF c.mergeStore.s3 /\ c.mergeStore.bucket = ""
       THEN "merge_store.s3.bucket is required"
  ELSE IF DOMAIN c.targets = {} /\ DOMAIN c.dynamicTargets = {}
       THEN "at least one target or dynamic_target is required"
  ELSE IF FirstTargetError(c, order) # "" THEN FirstTargetError(c, order)
  ELSE IF \E d \in DOMAIN c.dynamicTargets : ~c.dynamicTargets[d].discovery
       THEN "dynamic_target must specify a discovery"
  ELSE ""

\* cfg.Validate() is called
CallValidate ==
  /\ fnArgs.fn = "Validate"
  /\ fnResult = NoCall
  /\ \E order \in DistinctSeqs(DOMAIN fnArgs.c.targets, 2) :
       /\ Range(order) = DOMAIN fnArgs.c.targets
       /\ fnResult' = [ fn |-> "Validate", err |-> Validate(fnArgs.c, order) ]
  /\ UNCHANGED << fnArgs, outsideFn >>

NextValidate == CallValidate

InitValidate ==
  /\ QuietButFn
  /\ \E c \in ValidateConfigs : fnArgs = [ fn |-> "Validate", c |-> c ]
  /\ fnResult = NoCall

SpecValidate == InitValidate /\ [][NextValidate]_vars

(***************************************************************************)
(* Role ARN of a target's sync (pipeline.go syncTarget, config.go          *)
(* Config.GetRoleARN, aws_context.go AWSExecutionContext.GetRoleARN).  An  *)
(* ARN is the record of what its text is made of: an explicit role_arn, a  *)
(* custom pattern with the account ID substituted, or                      *)
(* arn:aws:iam::<account>:role<path><role>; NoARN is the empty string.     *)
(***************************************************************************)

RoleAccountIDs == {"111111111111", "222222222222"}

NoARN == [ kind |-> "none", account |-> "", path |-> "", role |-> "" ]

\* a target's role_arn, as written in the configuration
ExplicitARN(text) ==
  [ kind |-> "explicit", account |-> "", path |-> "", role |-> text ]

\* strings.ReplaceAll(pattern, "{{.AccountID}}", accountID)
PatternARN(pattern, accountID) ==
  [ kind |-> "custom", account |-> accountID, path |-> "", role |-> pattern ]

\* fmt.Sprintf("arn:aws:iam::%s:role%s%s", accountID, path, roleName)
IamARN(accountID, path, roleName) ==
  [ kind |-> "iam", account |-> accountID, path |-> path, role |-> roleName ]

\* the execution role paths tried, and the path with its slashes added
RolePaths == {"", "secrets", "/secrets/"}

SlashedPath(path) == IF path = "" THEN "/" ELSE "/secrets/"

\* the targets tried: one or two, each with an account and perhaps a role_arn
RoleTargets ==
  { f \in MapsOver({"a", "b"},
                   { [accountID |-> i, roleARN |-> r] :
                       i \in RoleAccountIDs,
                       r \in {"", "arn:explicit-1", "arn:explicit-2"} }) :
      DOMAIN f # {} }

\* aws.control_tower and aws.execution_context.custom_role_pattern
RoleAWSConfigs ==
  { [ ctEnabled |-> e, ctRoleName |-> n, ctRolePath |-> p,
      customRolePattern |-> cp ] :
      e \in BOOLEAN, n \in {"", "CustomRole"}, p \in RolePaths,
      cp \in {"", "arn:aws:iam::{{.AccountID}}:role/SecretsHub"} }

\* the Control Tower branch of both resolvers
ControlTowerARN(aws, accountID) ==
  IamARN(accountID, SlashedPath(aws.ctRolePath),
         IF aws.ctRoleName = "" THEN "AWSControlTowerExecution"
         ELSE aws.ctRoleName)

\* Config.GetRoleARN: the loop over c.Targets, in the order the map delivers
\* them, returns the first role_arn set on a target of that account
RECURSIVE FirstExplicit(_, _, _)
FirstExplicit(tgts, order, accountID) ==
  IF order = << >> THEN ""
  ELSE LET target == tgts[Head(order)]
       IN  IF target.accountID = accountID /\ target.roleARN # ""
           THEN target.roleARN
           ELSE FirstExplicit(tgts, Tail(order), accountID)

\* Config.GetRoleARN
Config_GetRoleARN(tgts, aws, order, accountID) ==
  IF FirstExplicit(tgts, order, accountID) # ""
  THEN ExplicitARN(FirstExplicit(tgts, order, accountID))
  ELSE IF aws.ctEnabled THEN ControlTowerARN(aws, accountID)
  ELSE IF aws.customRolePattern # ""
       THEN PatternARN(aws.customRolePattern, accountID)
  ELSE IamARN(accountID, "/", "AWSControlTowerExecution")

\* AWSExecutionContext.GetRoleARN
AWSExecutionContext_GetRoleARN(aws, callerAccountID, accountID) ==
  IF accountID = callerAccountID THEN NoARN
  ELSE IF aws.customRolePattern # ""
       THEN PatternARN(aws.customRolePattern, accountID)
  ELSE IF aws.ctEnabled THEN ControlTowerARN(aws, accountID)
  ELSE IamARN(accountID, "/", "OrganizationAccountAccessRole")

\* syncTarget(targetName) resolves the role for its sync with
\* p.config.GetRoleARN(target.AccountID); the execution context's resolver
\* is asked about the same account
ResolveRole(t) ==
  /\ fnArgs.fn = "GetRoleARN"
  /\ fnResult = NoCall
  /\ t \in DOMAIN fnArgs.targets
  /\ \E order \in DistinctSeqs(DOMAIN fnArgs.targets, 2) :
       /\ Range(order) = DOMAIN fnArgs.targets
       /\ fnResult' =
            [ fn |-> "GetRoleARN",
              target |-> t,
              syncARN |-> Config_GetRoleARN(fnArgs.targets, fnArgs.aws, order,
                                            fnArgs.targets[t].accountID),
              ctxARN |-> AWSExecutionContext_GetRoleARN(fnArgs.aws,
                           fnArgs.caller, fnArgs.targets[t].accountID) ]
  /\ UNCHANGED << fnArgs, outsideFn >>

NextRole == \E t \in {"a", "b"} : ResolveRole(t)

InitRole ==
  /\ QuietButFn
  /\ \E ts \in RoleTargets, aws \in RoleAWSConfigs, caller \in RoleAccountIDs :
       fnArgs = [ fn |-> "GetRoleARN", targets |-> ts, aws |-> aws,
                  caller |-> caller ]
  /\ fnResult = NoCall

SpecRole == InitRole /\ [][NextRole]_vars

(***************************************************************************)
(* Execution context of a run (aws_context.go NewAWSExecutionContext,      *)
(* discoverOrganizationContext, validateExecutionContext; pipeline.go      *)
(* NewWithContext, New; the pipeline and validate commands of the CLI).    *)
(* The AWS side is the input: the account of the caller identity, whether  *)
(* DescribeOrganization succeeds, the organization's management account    *)
(* and whether the caller is listed as a delegated administrator.  Loading *)
(* the AWS configuration and GetCallerIdentity are taken to succeed.       *)
(***************************************************************************)

ExecutionContextManagement == "management_account"

ExecutionContextDelegated == "delegated_admin"

ExecutionContextHub == "hub_account"

\* execution_context.type: one of the three types, or empty (auto-detect)
ExecutionContextTypes ==
  {"", ExecutionContextManagement, ExecutionContextDelegated, ExecutionContextHub}

ContextAccountIDs == {"111111111111", "222222222222"}

\* OrganizationInfo stays nil when the organization cannot be described
NoOrganizationInfo ==
  [ known |-> FALSE, MasterAccountID |-> "", IsManagementAccount |-> FALSE,
    IsDelegatedAdmin |-> FALSE ]

\* the organization context of a caller; delegated services are looked up
\* only when the caller is not the management account
discoverOrganizationContext(caller, describeFails, master, listedAsAdmin) ==
  IF describeFails THEN NoOrganizationInfo
  ELSE [ known |-> TRUE, MasterAccountID |-> master,
         IsManagementAccount |-> (caller = master),
         IsDelegatedAdmin |-> (caller # master /\ listedAsAdmin) ]

\* the member-account error of a management_account context
MemberAccountError(org) ==
  IF org.known /\ ~org.IsManagementAccount
    THEN << "configured as management_account but running in member account" >>
    ELSE NoError

\* the error of validateExecutionContext and whether it warned
validateExecutionContext(ec, caller, org) ==
  IF ec.AccountID # "" /\ ec.AccountID # caller
    THEN [ err |-> << "execution context mismatch" >>, warned |-> FALSE ]
  ELSE IF ec.Type = ExecutionContextManagement
    THEN [ err |-> MemberAccountError(org), warned |-> FALSE ]
  ELSE IF ec.Type = ExecutionContextDelegated
    THEN [ err |-> NoError,
           warned |-> org.known /\ (org.IsManagementAccount \/ ~org.IsDelegatedAdmin) ]
  ELSE [ err |-> NoError, warned |-> FALSE ]

\* the error of NewAWSExecutionContext: organization discovery is not fatal,
\* validation is
NewAWSExecutionContext(a) ==
  validateExecutionContext(
    a.ec, a.caller,
    discoverOrganizationContext(a.caller, a.describeFails, a.master, a.listedAsAdmin))

\* the Pipeline of NewWithContext: a failed execution context is logged and
\* the pipeline is built without it
NewWithContext(a) ==
  LET r == IF a.region # "" THEN NewAWSExecutionContext(a)
           ELSE [ err |-> NoError, warned |-> FALSE ]
  IN [ fn |-> "Context", stage |-> "created", err |-> NoError,
       awsCtx |-> (a.region # "" /\ r.err = NoError),
       ctxErr |-> r.err, warned |-> r.warned ]

\* the Pipeline of New: no execution context at all
New(a) ==
  [ fn |-> "Context", stage |-> "created", err |-> NoError, awsCtx |-> FALSE,
    ctxErr |-> NoError, warned |-> FALSE ]

\* the pipeline command builds the Pipeline, with the context when --discover
CreatePipeline ==
  /\ fnArgs.fn = "Context"
  /\ fnResult = NoCall
  /\ fnResult' = IF fnArgs.discover THEN NewWithContext(fnArgs) ELSE New(fnArgs)
  /\ UNCHANGED << fnArgs, outsideFn >>

\* ... and runs it when it was built: merge and sync are performed
RunCreatedPipeline ==
  /\ fnArgs.fn = "Context"
  /\ fnResult # NoCall
  /\ fnResult.stage = "created"
  /\ fnResult.err = NoError
  /\ fnResult' = [ fnResult EXCEPT !.stage = "ran" ]
  /\ UNCHANGED << fnArgs, outsideFn >>

\* the validate command with --check-aws returns the context's error
ValidateCheckAWS ==
  /\ fnArgs.fn = "Context"
  /\ fnResult = NoCall
  /\ LET r == NewAWSExecutionContext(fnArgs)
     IN fnResult' = [ fn |-> "Context", stage |-> "validated", err |-> r.err,
                      awsCtx |-> (r.err = NoError), ctxErr |-> r.err,
                      warned |-> r.warned ]
  /\ UNCHANGED << fnArgs, outsideFn >>

NextContext ==
  \/ CreatePipeline
  \/ RunCreatedPipeline
  \/ ValidateCheckAWS

InitContext ==
  /\ QuietButFn
  /\ \E type \in ExecutionContextTypes, acct \in ContextAccountIDs \cup {""},
        caller \in ContextAccountIDs, master \in ContextAccountIDs,
        region \in {"", "us-east-1"},
        describeFails \in BOOLEAN, listedAsAdmin \in BOOLEAN,
        discover \in BOOLEAN :
       fnArgs = [ fn |-> "Context", ec |-> [ Type |-> type, AccountID |-> acct ],
                  caller |-> caller, master |-> master, region |-> region,
                  describeFails |-> describeFails,
                  listedAsAdmin |-> listedAsAdmin, discover |-> discover ]
  /\ fnResult = NoCall

SpecContext == InitContext /\ [][NextContext]_vars

(***************************************************************************)
(* DopplerClient.DeleteSecret and ListSecrets (drivers/doppler).  The      *)
(* remote config is the set of secret names it holds; the requests that    *)
(* the API rejects are an input: the listing, and the deletion of some     *)
(* names.                                                                  *)
(***************************************************************************)

\* the names a config can hold, as Doppler stores them
DopplerNames == {"J", "K", "k"}

\* deleteSingleSecretRaw: one DELETE request with the name as given
deleteSingleSecretRaw(remote, rejected, name) ==
  IF name \in rejected
    THEN [ err |-> << "doppler API error" >>, remote |-> remote ]
    ELSE [ err |-> NoError, remote |-> remote \ {name} ]

\* the names left after the loop over the listed names: a failed deletion
\* is logged and the loop goes on
DeleteListed(remote, rejected) ==
  { n \in remote : deleteSingleSecretRaw(remote, rejected, n).err # NoError }

\* DeleteSecret(ctx, name): an empty name lists the config and deletes each
\* listed name; any other name is transformed and deleted
Doppler_DeleteSecret ==
  /\ fnArgs.fn = "DopplerDelete"
  /\ fnResult.stage = "start"
  /\ fnResult' =
       IF fnArgs.name = ""
       THEN IF fnArgs.listRejected
            THEN [ fnResult EXCEPT !.stage = "deleted",
                                   !.err = << "failed to list secrets" >> ]
            ELSE [ fnResult EXCEPT
                     !.stage = "deleted",
                     !.remote = DeleteListed(@, fnArgs.rejected) ]
       ELSE LET r == deleteSingleSecretRaw(
                       fnResult.remote, fnArgs.rejected,
                       transformName(fnArgs.nameTransform, fnArgs.name))
            IN [ fnResult EXCEPT !.stage = "deleted", !.err = r.err,
                                 !.remote = r.remote ]
  /\ UNCHANGED << fnArgs, outsideFn >>

\* ListSecrets(ctx, ""): the names of the config, once the deletion returned
Doppler_ListSecrets ==
  /\ fnArgs.fn = "DopplerDelete"
  /\ fnResult.stage = "deleted"
  /\ ~fnArgs.listRejected
  /\ fnResult' = [ fnResult EXCEPT !.stage = "listed", !.listed = fnResult.remote ]
  /\ UNCHANGED << fnArgs, outsideFn >>

NextDopplerDelete ==
  \/ Doppler_DeleteSecret
  \/ Doppler_ListSecrets

InitDopplerDelete ==
  /\ QuietButFn
  /\ \E rc \in SUBSET DopplerNames, rej \in SUBSET DopplerNames,
        lr \in BOOLEAN, nm \in {""} \cup DopplerKeys, nt \in {"upper", "none"} :
       /\ fnArgs = [ fn |-> "DopplerDelete", name |-> nm, nameTransform |-> nt,
                     rejected |-> rej, listRejected |-> lr ]
       /\ fnResult = [ fn |-> "DopplerDelete", stage |-> "start", remote |-> rc,
                       err |-> NoError, listed |-> {} ]

SpecDopplerDelete == InitDopplerDelete /\ [][NextDopplerDelete]_vars

(***************************************************************************)
(* shouldDryRun (internal/sync/filters.go) for the secrets of one sync     *)
(* job.  Spec.Suspend and Spec.DryRun are *bool: "nil", "false" or "true". *)
(* The calls of backend.SetSyncStatus and backend.WriteEvent are recorded  *)
(* in the order they are made; either may fail, which is only logged.  The *)
(* worker that calls shouldDryRun for each secret and writes the secret    *)
(* when it returns false is not part of the sources; it is taken from the  *)
(* specification.                                                          *)
(***************************************************************************)

MaxSecrets == 2

BoolPointers == {"nil", "false", "true"}

\* "p != nil && *p"
IsSet(p) == p = "true"

\* the status of a short circuit with the dryRun flag looked at first
ShortCircuitStatus_DryRunFirst(suspend, dryRun) ==
  IF IsSet(dryRun) THEN "DryRun"
  ELSE IF IsSet(suspend) THEN "Suspended"
  ELSE "none"

\* the status set and the event reason written when the flag short-circuits
ShortCircuitStatus(suspend, dryRun) ==
  IF IsSet(suspend) THEN "Suspended"
  ELSE IF IsSet(dryRun) THEN "DryRun"
  ELSE "none"

\* shouldDryRun(ctx, j, dest, sourcePath, destPath): what it returns, the
\* status it sets, the event it writes and the errors it logs
shouldDryRunCalls(suspend, dryRun, statusFails, eventFails, sourcePath) ==
  LET st == ShortCircuitStatus(suspend, dryRun)
  IN IF st = "none"
     THEN [ ret |-> FALSE, status |-> << >>, events |-> << >>, logged |-> 0 ]
     ELSE [ ret |-> TRUE,
            status |-> << st >>,
            events |-> << [ type |-> "Normal", reason |-> st,
                            sourcePath |-> sourcePath ] >>,
            logged |-> (IF statusFails THEN 1 ELSE 0)
                         + (IF eventFails THEN 1 ELSE 0) ]

\* the worker takes the next secret of the job: short-circuited, or written
SyncNextSecret ==
  /\ fnArgs.fn = "shouldDryRun"
  /\ fnResult.done < fnArgs.secrets
  /\ LET sourcePath == fnResult.done + 1
         r == shouldDryRunCalls(fnArgs.suspend, fnArgs.dryRun,
                                fnArgs.statusFails, fnArgs.eventFails, sourcePath)
     IN fnResult' =
          [ fnResult EXCEPT
              !.done = sourcePath,
              !.status = @ \o r.status,
              !.events = @ \o r.events,
              !.logged = @ + r.logged,
              !.written = IF r.ret THEN @ ELSE @ \cup {sourcePath} ]
  /\ UNCHANGED << fnArgs, outsideFn >>

NextDryRun == SyncNextSecret

InitDryRun ==
  /\ QuietButFn
  /\ \E su \in BoolPointers, dr \in BoolPointers, sf \in BOOLEAN, ef \in BOOLEAN,
        n \in 1..MaxSecrets :
       fnArgs = [ fn |-> "shouldDryRun", suspend |-> su, dryRun |-> dr,
                  statusFails |-> sf, eventFails |-> ef, secrets |-> n ]
  /\ fnResult = [ fn |-> "shouldDryRun", done |-> 0, status |-> << >>,
                  events |-> << >>, logged |-> 0, written |-> {} ]

SpecDryRun == InitDryRun /\ [][NextDryRun]_vars

(***************************************************************************)
(* Requested target names (graph.go IncludeDependencies, pipeline.go       *)
(* resolveTargets, executeMergePhase, executeSyncPhase, mergeTarget,       *)
(* syncTarget).  The names requested need not be configured targets: "c"   *)
(* is in no map of the configurations below and "s1" is a source.  No      *)
(* failure is injected: the task of a configured target succeeds.          *)
(***************************************************************************)

\* the configurations: Config.Targets[name].Imports
RequestConfigs ==
  { [a |-> <<"s1">>, b |-> <<"a">>],
    [a |-> <<"s1", "s2">>, b |-> <<"s2">>] }

\* the names a caller can put in Options.Targets
RequestNames == {"a", "b", "c", "s1"}

\* g.Nodes: every configured source and target
NodesOf(imports) == SourceNames \cup DOMAIN imports

\* the map included of IncludeDependencies after addDeps of each name
IncludedOf(imports, requested) ==
  LET RECURSIVE all(_, _)
      all(k, inc) == IF k > Len(requested) THEN inc
                     ELSE all(k + 1, addDeps(imports, requested[k], inc))
  IN  all(1, {})

\* the comparator of IncludeDependencies reads g.Nodes[name].Level: a name
\* that is no node is a nil pointer there.  sort.Slice calls the comparator
\* on every element as soon as the slice holds two
SortDereferencesNil(imports, included) ==
  /\ Cardinality(included) >= 2
  /\ \E n \in included : n \notin NodesOf(imports)

\* Graph.IncludeDependencies on any list of names: the sorted slice, or a panic
IncludeDependenciesOrPanic(imports, requested) ==
  LET included == IncludedOf(imports, requested)
  IN  IF SortDereferencesNil(imports, included)
      THEN [ panic |-> TRUE, targets |-> << >> ]
      ELSE IF included \subseteq NodesOf(imports)
      THEN [ panic |-> FALSE, targets |-> SortByLevelName(imports, included) ]
      ELSE [ panic |-> FALSE, targets |-> << CHOOSE n \in included : TRUE >> ]

\* Pipeline.resolveTargets
resolveTargetsOrPanic(imports, requested) ==
  IF Len(requested) = 0
  THEN [ panic |-> FALSE, targets |-> TopologicalOrder(imports) ]
  ELSE IncludeDependenciesOrPanic(imports, requested)

\* the Result of mergeTarget or syncTarget for a name: "target not found"
\* unless the name is a key of Config.Targets
TaskResult(imports, ph, name) ==
  IF name \in DOMAIN imports
  THEN [ target |-> name, phase |-> ph, success |-> TRUE, error |-> NoError ]
  ELSE [ target |-> name, phase |-> ph, success |-> FALSE,
         error |-> << "target not found" >> ]

\* executeMergePhase: the levels of the graph, each filtered to the requested
\* names, and the Result of mergeTarget for each name left
MergePhaseResults(imports, tgts) ==
  LET levels == GroupByLevel(imports)
      RECURSIVE over(_)
      over(l) ==
        IF l > Len(levels) THEN << >>
        ELSE LET levelTargets == FilterRequested(levels[l], tgts)
             IN  [ k \in 1..Len(levelTargets) |->
                     TaskResult(imports, "merge", levelTargets[k]) ] \o over(l + 1)
  IN  over(1)

\* executeSyncPhase: the Result of syncTarget for each resolved name
SyncPhaseResults(imports, tgts) ==
  [ k \in 1..Len(tgts) |-> TaskResult(imports, "sync", tgts[k]) ]

\* Run: resolveTargets
RequestResolve ==
  /\ fnArgs.fn = "Request"
  /\ fnResult.stage = "start"
  /\ LET r == resolveTargetsOrPanic(fnArgs.imports, fnArgs.requested)
     IN  fnResult' = [ fnResult EXCEPT
                         !.stage = IF r.panic THEN "panicked" ELSE "resolved",
                         !.targets = r.targets ]
  /\ UNCHANGED << fnArgs, outsideFn >>

\* runMerge, runPipeline: the merge phase
RequestMergePhase ==
  /\ fnArgs.fn = "Request"
  /\ fnResult.stage = "resolved"
  /\ fnArgs.operation \in {"merge", "pipeline"}
  /\ fnResult' = [ fnResult EXCEPT
                     !.stage = IF fnArgs.operation = "merge" THEN "returned"
                               ELSE "merged",
                     !.phases = @ \cup {"merge"},
                     !.results = @ \o MergePhaseResults(fnArgs.imports,
                                                        fnResult.targets) ]
  /\ UNCHANGED << fnArgs, outsideFn >>

\* runSync, runPipeline: the sync phase
RequestSyncPhase ==
  /\ fnArgs.fn = "Request"
  /\ \/ fnResult.stage = "resolved" /\ fnArgs.operation = "sync"
     \/ fnResult.stage = "merged"
  /\ fnResult' = [ fnResult EXCEPT
                     !.stage = "returned",
                     !.phases = @ \cup {"sync"},
                     !.results = @ \o SyncPhaseResults(fnArgs.imports,
                                                       fnResult.targets) ]
  /\ UNCHANGED << fnArgs, outsideFn >>

NextRequest ==
  \/ RequestResolve
  \/ RequestMergePhase
  \/ RequestSyncPhase

InitRequest ==
  /\ QuietButFn
  /\ \E imports \in RequestConfigs,
        requested \in UNION { [1..k -> RequestNames] : k \in 0..MaxRequested },
        op \in {"merge", "sync", "pipeline"} :
       fnArgs = [ fn |-> "Request", imports |-> imports,
                  requested |-> requested, operation |-> op ]
  /\ fnResult = [ fn |-> "Request", stage |-> "start", targets |-> << >>,
                  phases |-> {}, results |-> << >> ]

SpecRequest == InitRequest /\ [][NextRequest]_vars

(***************************************************************************)
(* The event processor of a Pipeline over several calls of Run             *)
(* (pipeline.go Run, initialize).  Each Run is given a context, one used   *)
(* before or a fresh one; contexts are numbered.  initialize starts the    *)
(* processor in a goroutine with the context of the Run that calls it and  *)
(* sets Pipeline.initialized.  EventProcessor itself is not part of the    *)
(* sources: as in Operator (operator.go), which runs it for the life of    *)
(* its context, it serves the queue until the context it was given is      *)
(* done.                                                                   *)
(***************************************************************************)

\* calls of Run on the Pipeline
MaxRuns == 2

\* jobs one Run triggers
MaxJobs == 2

\* the processor was started and the context it was given is not done
ProcessorLive(r) == r.started > 0 /\ r.procCtx \notin r.cancelled

\* Pipeline.initialize: nothing once initialized; else the processor is
\* started with the context of this Run
initialize(r, c) ==
  IF r.initialized THEN r
  ELSE [ r EXCEPT !.initialized = TRUE, !.started = @ + 1, !.procCtx = c ]

\* Run(ctx, opts) begins: Pipeline.mu is taken and initialize is called
ProcessorRunBegin ==
  /\ fnArgs.fn = "Processor"
  /\ ~fnResult.running
  /\ fnResult.run < fnArgs.runs
  /\ \E c \in 1..(fnResult.contexts + 1) :
       fnResult' = [ initialize(fnResult, c) EXCEPT
                       !.running = TRUE,
                       !.run = @ + 1,
                       !.ctx = c,
                       !.contexts = IF c > @ THEN c ELSE @,
                       !.triggered = 0 ]
  /\ UNCHANGED << fnArgs, outsideFn >>

\* mergeTarget / syncTarget: backend.ManualTrigger puts a job on the queue
ProcessorTrigger ==
  /\ fnArgs.fn = "Processor"
  /\ fnResult.running
  /\ fnResult.ctx \notin fnResult.cancelled
  /\ fnResult.triggered < fnArgs.jobs
  /\ fnResult' = [ fnResult EXCEPT !.triggered = @ + 1, !.pending = @ + 1 ]
  /\ UNCHANGED << fnArgs, outsideFn >>

\* a worker of the live processor takes a job off the queue
ProcessorWork ==
  /\ fnArgs.fn = "Processor"
  /\ ProcessorLive(fnResult)
  /\ fnResult.pending > 0
  /\ fnResult' = [ fnResult EXCEPT !.pending = @ - 1, !.processed = @ + 1 ]
  /\ UNCHANGED << fnArgs, outsideFn >>

\* a context handed to some Run is cancelled
ProcessorCancel ==
  /\ fnArgs.fn = "Processor"
  /\ \E c \in (1..fnResult.contexts) \ fnResult.cancelled :
       fnResult' = [ fnResult EXCEPT !.cancelled = @ \cup {c} ]
  /\ UNCHANGED << fnArgs, outsideFn >>

\* Run returns after the fixed sleeps of its tasks
ProcessorRunReturn ==
  /\ fnArgs.fn = "Processor"
  /\ fnResult.running
  /\ fnResult' = [ fnResult EXCEPT !.running = FALSE ]
  /\ UNCHANGED << fnArgs, outsideFn >>

NextProcessor ==
  \/ ProcessorRunBegin
  \/ ProcessorTrigger
  \/ ProcessorWork
  \/ ProcessorCancel
  \/ ProcessorRunReturn

InitProcessor ==
  /\ QuietButFn
  /\ fnArgs = [ fn |-> "Processor", runs |-> MaxRuns, jobs |-> MaxJobs ]
  /\ fnResult = [ fn |-> "Processor", initialized |-> FALSE, started |-> 0,
                  procCtx |-> 0, run |-> 0, running |-> FALSE, ctx |-> 0,
                  contexts |-> 0, cancelled |-> {}, triggered |-> 0,
                  pending |-> 0, processed |-> 0 ]

SpecProcessor == InitProcessor /\ [][NextProcessor]_vars

(***************************************************************************)
(* The run under fair scheduling: the goroutine of executeParallel takes   *)
(* a branch of its select when one is ready, every task function called    *)
(* goes on until it returns, and the caller of executeParallel goes on     *)
(* once wg.Wait() has returned.  Nothing is assumed of the cancellation or *)
(* of the workers of the event processor.                                  *)
(***************************************************************************)

\* a step of the loop of executeParallel
ExecLoopStep == ExecSkip \/ ExecSpawn

\* a step of a task function
TaskStep ==
  \E t \in TargetNames :
    \/ mergeTargetImport(t)
    \/ mergeTargetReturn(t)
    \/ syncTargetTrigger(t)
    \/ syncTargetReturn(t)

\* the return of executeParallel into the phase that called it
ExecReturn == MergeLevelAbort \/ MergeLevelNext \/ SyncPhaseReturn

\* the runs over every configured target, the limit taken from the options
\* (1) or from the configuration (0)
InitFair ==
  /\ Init
  /\ opts.targets = << >>
  /\ opts.parallelism \in {0, 1}

SpecFair ==
  /\ InitFair
  /\ [][Next]_vars
  /\ WF_vars(ExecLoopStep)
  /\ WF_vars(TaskStep)
  /\ WF_vars(ExecReturn)

(***************************************************************************)
(* Properties                                                              *)
(***************************************************************************)

\* the requested targets a target imports, directly or transitively
RequestedDeps(t) ==
  (addDeps(cfg.imports, t, {}) \ {t})
    \cap Range(resolveTargets(cfg.imports, opts.targets))

\* the merge tasks executing now
RunningMerges == { t \in TargetNames : phase = "merge" /\ task[t].st = "running" }

\* C1: in the merge phase, the merge task of a target never starts until the
\* merge task of every requested target it imports, directly or
\* transitively, has finished; and only targets of the same level run
\* concurrently.
C1_MergeStartsAfterDependencies ==
  /\ \A t \in DOMAIN cfg.imports :
       <<"merge", t>> \in started =>
         \A d \in RequestedDeps(t) : <<"merge", d>> \in finished
  /\ \A t, u \in RunningMerges :
       calcLevel(cfg.imports, t) = calcLevel(cfg.imports, u)

\* C5: once the context has been cancelled, no new target task is started.
C5_NoStartAfterCancel == [][ctxDone => started' = started]_vars

\* the tasks executing now, in either phase
RunningTasks == { t \in TargetNames : task[t].st = "running" }

\* C2: while a phase executes, the number of target tasks executing
\* concurrently is at most the limit in force (the parallelism Run settled
\* on, raised to at least 1); the limit is never below 1, and a target
\* waiting to start while no task runs can always be started.
C2_BoundedParallelism ==
  pc = "exec" =>
    /\ semCap = (IF parallelism <= 0 THEN 1 ELSE parallelism)
    /\ semCap >= 1
    /\ Cardinality(RunningTasks) <= semCap
    /\ (epIdx <= Len(epTargets) /\ RunningTasks = {}) => ENABLED ExecSpawn

\* C2 witness: no limit given in the options, every slot of the semaphore is
\* held by a running task and a further target waits for a slot
C2_Witness ==
  /\ pc = "exec"
  /\ opts.parallelism <= 0
  /\ Cardinality(RunningTasks) = semCap
  /\ epIdx <= Len(epTargets)
  /\ ~ctxDone

\* position of an import in the declaration of a target's imports
ImportPos(t, imp) == CHOOSE k \in 1..Len(cfg.imports[t]) : cfg.imports[t][k] = imp

\* C3: the merges into a target's merge-store path take effect in the order
\* its imports are declared.
C3_MergesInDeclarationOrder ==
  \A t \in DOMAIN cfg.imports :
    \A i, j \in 1..Len(applied[t]) :
      i < j => ImportPos(t, applied[t][i]) < ImportPos(t, applied[t][j])

\* C4: in a dry run no WriteSecret and no DeleteSecret call reaches a
\* destination or merge-store driver.
C4_DryRunNeverWrites == opts.dryRun => writeCalls = {}

\* C4 witness: a dry run over the S3 merge store has gone through import
\* iterations of the merge phase and the worker pool has short-circuited a
\* triggered sync job
C4_Witness ==
  /\ opts.dryRun
  /\ cfg.s3Store
  /\ mergeWork # {}
  /\ \E n \in DOMAIN jobStatus : jobStatus[n] = "DryRun"
  /\ pc = "returned"

\* C6: if the context is cancelled while requested work is outstanding, Run
\* returns the context's cancellation error (stated for the runs in which no
\* failure is injected and no task is started after the cancellation).
C6_RunReturnsContextError ==
  (pc = "returned" /\ workLeft /\ faults = 0 /\ ~lateStart) =>
    IsCtxErr(retErr)

\* C7: after cancellation, every requested target with a task that was not
\* run to completion has an unsuccessful entry carrying the context error in
\* the returned results (stated for the runs in which no failure is injected
\* and no task is started after the cancellation).
C7_CancelledTargetsReported ==
  (pc = "returned" /\ ctxDone /\ faults = 0 /\ ~lateStart) =>
    \A w \in RequestedWork \ finished :
      \E k \in 1..Len(retResults) :
        /\ retResults[k].target = w[2]
        /\ ~retResults[k].success
        /\ IsCtxErr(retResults[k].error)

\* the worker pool has set the status of the named spec to Failed
JobFailed(n) == n \in DOMAIN jobStatus /\ jobStatus[n] = "Failed"

\* the import has been merged into the target's merge-store path
Merged(t, imp) ==
  IF cfg.vault THEN imp \in Range(applied[t]) ELSE <<t, imp>> \in s3Objects

\* C8: once Run has returned and every triggered job has been processed (no
\* dry run, no cancellation), an import whose merge failed is listed in
\* failedImports of an unsuccessful merge result, and a successful merge
\* result means every import of the target was merged.
C8_MergeFailuresReported ==
  (pc = "returned" /\ queue = << >> /\ ~opts.dryRun /\ ~ctxDone) =>
    \A k \in 1..Len(retResults) :
      LET r == retResults[k]
      IN  r.phase = "merge" =>
            /\ \A imp \in Range(cfg.imports[r.target]) :
                 JobFailed(<<"merge", imp, r.target>>) =>
                   (~r.success /\ imp \in Range(r.failedImports))
            /\ r.success =>
                 \A imp \in Range(cfg.imports[r.target]) : Merged(r.target, imp)

\* C9: once Run has returned and every triggered job has been processed (no
\* dry run, no cancellation), a sync result is successful only if the
\* target's sync job completed successfully.
C9_SyncFailuresReported ==
  (pc = "returned" /\ queue = << >> /\ ~opts.dryRun /\ ~ctxDone) =>
    \A k \in 1..Len(retResults) :
      LET r == retResults[k]
          n == <<"sync", r.target, r.target>>
      IN  (r.phase = "sync" /\ r.success) =>
            (n \in DOMAIN jobStatus /\ jobStatus[n] = "Success")

\* the merge tasks started so far
MergeStarted == { w \in started : w[1] = "merge" }

\* C10: with continue_on_error off, after the first failed import no further
\* merge work starts (no import iteration, no merge task), and the error Run
\* returns is the error of that first failure.
C10_MergeAbortsAtFirstFailure ==
  /\ [][ (~opts.continueOnError /\ firstFailure # NoError) =>
           (mergeWork' = mergeWork /\ MergeStarted' = MergeStarted) ]_vars
  /\ [] ( (pc = "returned" /\ ~opts.continueOnError /\ firstFailure # NoError) =>
            retErr = (IF opts.operation = "pipeline"
                      THEN Wrap("merge phase failed", firstFailure)
                      ELSE firstFailure) )

\* the sync tasks started so far
SyncStarted == { w \in started : w[1] = "sync" }

\* a sync task of the executing sync phase has returned a failure
SyncFailed ==
  /\ pc = "exec"
  /\ phase = "sync"
  /\ \E k \in 1..Len(slots) : slots[k].phase = "sync" /\ ~slots[k].success

\* C11: in the sync phase, with continue_on_error off no further sync task
\* starts once a target's sync has failed; with continue_on_error on (and no
\* cancellation) every resolved target's sync task is started before Run
\* returns from an operation that has a sync phase.
C11_SyncStopsAfterFailure ==
  /\ [][ (SyncFailed /\ ~opts.continueOnError) =>
           SyncStarted' = SyncStarted ]_vars
  /\ [] ( (pc = "returned" /\ opts.continueOnError /\ ~ctxDone
             /\ opts.operation # "merge") =>
            \A t \in Range(targets) : <<"sync", t>> \in started )

\* C12: when the options give no limit, the limit of the sync phase is the
\* configured sync.parallel and the limit of the merge phase is the
\* configured merge.parallel.
C12_PhaseLimitFromOwnSetting ==
  (pc = "exec" /\ opts.parallelism <= 0) =>
    semCap = ConfiguredLimit(IF phase = "sync" THEN cfg.syncParallel
                             ELSE cfg.mergeParallel)

\* the callers whose call of Run is executing the body of Run
InRun == { c \in Callers : calls[c].st = "running" }

\* C13: at most one call of Run executes at any time, the executing call
\* holds the mutex, a call that waits has started no target task, and the
\* results a call returns are exactly the results of its own target tasks.
C13_RunMutualExclusion ==
  /\ Cardinality(InRun) <= 1
  /\ \A c \in InRun : mu = c
  /\ \A c \in Callers : calls[c].st = "locking" => calls[c].results = << >>
  /\ \A c \in Callers :
       calls[c].st = "returned" =>
         LET w == RunWork(calls[c].operation, calls[c].targets)
         IN  /\ Len(calls[c].ret) = Len(w)
             /\ \A k \in 1..Len(w) :
                  /\ calls[c].ret[k].by = c
                  /\ calls[c].ret[k].phase = w[k][1]
                  /\ calls[c].ret[k].target = w[k][2]

\* C13 witness: one call is in the middle of its target tasks while another
\* call waits for the mutex
C13_Witness ==
  \E c, d \in Callers :
    /\ c # d
    /\ calls[c].st = "running"
    /\ calls[c].results # << >>
    /\ calls[c].work # << >>
    /\ calls[d].st = "locking"

\* the nodes the nodes of S import
ImportsOf(imports, S) ==
  UNION { Range(imports[n]) : n \in S \cap DOMAIN imports }

\* the nodes reached from S by one to k import edges
RECURSIVE ReachableIn(_, _, _)
ReachableIn(imports, S, k) ==
  IF k = 0 THEN {}
  ELSE LET next == ImportsOf(imports, S)
       IN  next \cup ReachableIn(imports, next, k - 1)

\* the node lies on a cycle of the import relation
OnCycle(imports, n) ==
  n \in ReachableIn(imports, {n}, Cardinality(GraphNodes))

HasCycle(imports) == \E n \in DOMAIN imports : OnCycle(imports, n)

\* C14: for a configuration whose imports all name existing nodes,
\* BuildGraph returns an error exactly when the import relation has a cycle;
\* the error is the circular-dependency error and names a node on a cycle,
\* whatever the order in which the map of nodes is iterated.
C14_BuildGraphErrorIffCycle ==
  graph.st # "none" =>
    /\ (graph.st = "error") <=> HasCycle(gImports)
    /\ graph.st = "error" =>
         /\ graph.err[1] = "circular dependency detected involving"
         /\ OnCycle(gImports, graph.err[2])

\* C14 witness: BuildGraph has failed on the cycle a -> b -> c -> a
C14_Witness ==
  /\ graph.st = "error"
  /\ gImports = [t \in GraphTargets |->
                   CASE t = "a" -> <<"b">> [] t = "b" -> <<"c">>
                     [] t = "c" -> <<"a">>]

\* C15: in a successfully built graph every source has level 0 and every
\* target has level 1 + m, where m is the largest level among its imports (a
\* level, so at least 0); a target's level is above that of each import.
C15_TargetLevelIsOnePlusMax ==
  graph.st = "built" =>
    /\ \A n \in GraphSources : graph.level[n] = 0
    /\ \A t \in GraphTargets :
         LET deps == Range(gImports[t])
         IN  /\ \E m \in 0..Cardinality(GraphNodes) :
                  /\ \A d \in deps : graph.level[d] <= m
                  /\ deps # {} => \E d \in deps : graph.level[d] = m
                  /\ graph.level[t] = 1 + m
             /\ \A d \in deps : graph.level[t] > graph.level[d]

\* C16: GroupByLevel places no target at index 0, and every target appears
\* exactly once, at index 1 or higher.
C16_NoTargetAtLevelZero ==
  query.fn = "GroupByLevel" =>
    /\ query.result[1] = << >>
    /\ \A t \in GraphTargets :
         Cardinality({ p \in (2..Len(query.result)) \X (1..Cardinality(GraphTargets)) :
                         /\ p[2] <= Len(query.result[p[1]])
                         /\ query.result[p[1]][p[2]] = t }) = 1

\* position of an element in a list
IndexOf(sq, x) == CHOOSE i \in 1..Len(sq) : sq[i] = x

\* C17: TopologicalOrder lists every target exactly once, every imported
\* target before the target that imports it, and the list is the same for
\* every iteration order of the map of nodes.
C17_TopologicalOrderRespectsImports ==
  query.fn = "TopologicalOrder" =>
    LET r == query.result
    IN  /\ Len(r) = Cardinality(GraphTargets)
        /\ Range(r) = GraphTargets
        /\ \A t \in GraphTargets :
             \A d \in Range(gImports[t]) \cap GraphTargets :
               IndexOf(r, d) < IndexOf(r, t)
        /\ \A mapOrder \in NodeOrders :
             Graph_TopologicalOrder(gImports, graph.level, mapOrder) = r
        /\ r = TopologicalOrder(gImports)

\* C17 witness: TopologicalOrder was called on a graph in which a target
\* imports a target whose name sorts after its own
C17_Witness ==
  /\ query.fn = "TopologicalOrder"
  /\ \E t \in GraphTargets :
       \E d \in Range(gImports[t]) \cap GraphTargets : NameLess(t, d)

\* C18: IncludeDependencies returns exactly the requested targets and the
\* targets reachable from them through imports, each once, imported targets
\* before the targets importing them, no source; applied to its own result
\* it returns that result.
C18_IncludeDependenciesIsClosure ==
  query.fn = "IncludeDependencies" =>
    LET r   == query.result
        req == Range(query.arg)
        closure == req \cup (ReachableIn(gImports, req, Cardinality(GraphNodes))
                              \cap GraphTargets)
    IN  /\ Range(r) = closure
        /\ Len(r) = Cardinality(closure)
        /\ Range(r) \cap GraphSources = {}
        /\ \A t \in Range(r) :
             \A d \in Range(gImports[t]) \cap GraphTargets :
               IndexOf(r, d) < IndexOf(r, t)
        /\ \A mapOrder \in NodeOrders :
             Graph_IncludeDependencies(gImports, graph.level, r, mapOrder) = r

\* C18 witness: one target was requested, it imports a source and a target,
\* and the result has the three targets of a chain
C18_Witness ==
  /\ query.fn = "IncludeDependencies"
  /\ Len(query.arg) = 1
  /\ Len(query.result) = 3
  /\ Range(gImports[query.arg[1]]) \cap GraphSources # {}
  /\ Range(gImports[query.arg[1]]) \cap GraphTargets # {}

\* both values are mappings
BothMaps(d, s) == d.kind = "map" /\ s.kind = "map"

\* both values are sequences
BothLists(d, s) == d.kind = "list" /\ s.kind = "list"

\* the override law on the keys two mappings share, and on the keys shared
\* inside the mappings they share
RECURSIVE OverrideLaw(_, _, _)
OverrideLaw(d, s, r) ==
  \A k \in DOMAIN d \cap DOMAIN s :
    /\ k \in DOMAIN r
    /\ IF BothMaps(d[k], s[k])
       THEN r[k].kind = "map" /\ OverrideLaw(d[k].val, s[k].val, r[k].val)
       ELSE IF BothLists(d[k], s[k]) THEN TRUE
       ELSE r[k] = (IF s[k].kind # "null" THEN s[k] ELSE d[k])

\* C19: for a key present in both inputs whose values are not both mappings
\* and not both sequences, the result holds the value of src when that is
\* not null and the value of dst when it is.
C19_ScalarOverride ==
  mergeOut.st = "merged" => OverrideLaw(mergeDst, mergeSrc, mergeOut.val)

\* C19 witness: under the shared key dst has a mapping and src a mapping;
\* inside, one key has a sequence in dst and a scalar in src, another a
\* scalar in dst and a null in src
C19_Witness ==
  /\ mergeOut.st = "merged"
  /\ "k" \in DOMAIN mergeDst \cap DOMAIN mergeSrc
  /\ BothMaps(mergeDst["k"], mergeSrc["k"])
  /\ DOMAIN mergeDst["k"].val = {"j", "k"}
  /\ DOMAIN mergeSrc["k"].val = {"j", "k"}
  /\ mergeDst["k"].val["j"].kind = "list"
  /\ mergeSrc["k"].val["j"].kind = "number"
  /\ mergeDst["k"].val["k"].kind = "string"
  /\ mergeSrc["k"].val["k"].kind = "null"

\* the append law on the keys two mappings share, at every depth
RECURSIVE AppendLaw(_, _, _)
AppendLaw(d, s, r) ==
  \A k \in DOMAIN d \cap DOMAIN s :
    /\ k \in DOMAIN r
    /\ IF BothLists(d[k], s[k])
       THEN r[k] = [ kind |-> "list", val |-> d[k].val \o s[k].val ]
       ELSE IF BothMaps(d[k], s[k])
            THEN r[k].kind = "map" /\ AppendLaw(d[k].val, s[k].val, r[k].val)
            ELSE TRUE

\* C20: for a key whose value is a sequence in both inputs, at any depth, the
\* result holds the elements of dst followed by the elements of src, in
\* their order and with repetitions kept.
C20_ListAppend ==
  mergeOut.st = "merged" => AppendLaw(mergeDst, mergeSrc, mergeOut.val)

\* C20 witness: inside a shared mapping a key holds <<x>> in dst and
\* <<x, y>> in src
C20_Witness ==
  /\ mergeOut.st = "merged"
  /\ "k" \in DOMAIN mergeDst \cap DOMAIN mergeSrc
  /\ BothMaps(mergeDst["k"], mergeSrc["k"])
  /\ "j" \in DOMAIN mergeDst["k"].val \cap DOMAIN mergeSrc["k"].val
  /\ BothLists(mergeDst["k"].val["j"], mergeSrc["k"].val["j"])
  /\ Len(mergeDst["k"].val["j"].val) = 1
  /\ Len(mergeSrc["k"].val["j"].val) = 2
  /\ mergeDst["k"].val["j"].val[1] = mergeSrc["k"].val["j"].val[1]
  /\ mergeSrc["k"].val["j"].val[1] # mergeSrc["k"].val["j"].val[2]

\* what the mapping at address a holds
PayloadAt(a) == Contents(heap, Ref(a)).val

\* the memory DeepMerge agrees with DeepMerge on payloads
AliasAgreesWithDeepMerge ==
  (outRef # 0 /\ ~mutated) => PayloadAt(outRef) = DeepMerge(mergeDst, mergeSrc)

\* C21: after merged = DeepMerge(dst, src), and after a write into a mapping
\* or a sequence inside merged, dst and src hold what they held before the
\* call.
C21_InputsUntouched ==
  outRef # 0 => PayloadAt(dstRef) = mergeDst /\ PayloadAt(srcRef) = mergeSrc

\* the half of C21 that is about src
C21_SrcUntouched == outRef # 0 => PayloadAt(srcRef) = mergeSrc

\* DiffSecrets has returned
Diffed == fnResult.fn = "DiffSecrets"

\* C22: DiffSecrets emits one change record for every path of current or
\* desired and none for any other path, and the four counts of the summary
\* add up to its total.
C22_DiffTotality ==
  Diffed =>
    LET changes == fnResult.changes
        sum     == fnResult.summary
        paths   == DOMAIN fnArgs.current \cup DOMAIN fnArgs.desired
    IN  /\ \A p \in paths :
             Cardinality({ i \in 1..Len(changes) : changes[i].path = p }) = 1
        /\ \A i \in 1..Len(changes) : changes[i].path \in paths
        /\ sum.added + sum.removed + sum.modified + sum.unchanged = sum.total
        /\ sum.total = Cardinality(paths)

\* C22 witness: a diff with an added, a removed and an unchanged secret, the
\* unchanged one held as an int on one side and as a float64 on the other
C22_Witness ==
  /\ Diffed
  /\ fnResult.summary.added = 1
  /\ fnResult.summary.removed = 1
  /\ fnResult.summary.unchanged = 1
  /\ \E p \in DOMAIN fnArgs.current \cap DOMAIN fnArgs.desired :
       fnArgs.current[p] # fnArgs.desired[p]

\* the process has exited under --exit-code
Exited == fnResult.fn = "runPipeline" /\ fnResult.exit # -1

\* some target's diff has an added, a removed or a modified secret
ChangeDetected ==
  \E i \in 1..Len(fnArgs.targets) :
    fnArgs.targets[i].added + fnArgs.targets[i].removed
      + fnArgs.targets[i].modified > 0

C24_SecondWriteSkipped ==
  (fnResult.fn = "Doppler" /\ fnResult.writes >= 2) => fnResult.posts <= 1

\* DiscoverTargets has processed the dynamic target
Discovered == fnResult.fn = "DiscoverTargets"

\* every configured discoverer of the dynamic target succeeded
AllDiscoverersSucceeded ==
  \A r \in {fnArgs.dt.identityCenter, fnArgs.dt.organizations,
            fnArgs.dt.accountsList} : r.st # "fail"

\* the account IDs the discoverers of the dynamic target returned
FoundIDs ==
  { a.id : a \in Range(fnArgs.dt.identityCenter.accounts
                         \o fnArgs.dt.organizations.accounts
                         \o fnArgs.dt.accountsList.accounts) }

\* the names of the targets the dynamic target expanded to
ExpandedNames ==
  { n \in DOMAIN fnResult.targets : fnResult.targets[n].dyn = "d1" }

\* C25: when all its discoverers succeed, the targets a dynamic target
\* expands to are those of the accounts its discoverers returned, less the
\* excluded ones: one target for each such account ID and no other.
C25_ExpansionIsUnionLessExcluded ==
  (Discovered /\ AllDiscoverersSucceeded) =>
    /\ { fnResult.targets[n].accountID : n \in ExpandedNames }
         = { i \in FoundIDs : ~isExcluded(i, fnArgs.dt.exclude) }
    /\ \A n1, n2 \in ExpandedNames :
         fnResult.targets[n1].accountID = fnResult.targets[n2].accountID
           => n1 = n2

\* C26: no account parsed from an external account list has an empty ID,
\* whichever of the three formats the parameter value uses.
C26_NoEmptyAccountID ==
  fnResult.fn = "getAccountsFromSSM" =>
    \A i \in 1..Len(fnResult.out.accounts) : fnResult.out.accounts[i].id # ""

\* the half of C26 about arrays of strings and comma-separated lists
C26_ListsHaveNoEmptyID ==
  (fnResult.fn = "getAccountsFromSSM" /\ fnArgs.value.format # "objects") =>
    \A i \in 1..Len(fnResult.out.accounts) : fnResult.out.accounts[i].id # ""

\* Validate has returned
Validated == fnResult.fn = "Validate"

\* some target of the validated configuration has imports
AnyTargetHasImports ==
  \E t \in DOMAIN fnArgs.c.targets : fnArgs.c.targets[t].imports # << >>

\* the validated configuration has nothing wrong besides its merge store
ValidButForMergeStore ==
  \A order \in DistinctSeqs(DOMAIN fnArgs.c.targets, 2) :
    Range(order) = DOMAIN fnArgs.c.targets =>
      Validate([fnArgs.c EXCEPT !.mergeStore =
                  [vault |-> TRUE, s3 |-> FALSE, bucket |-> ""]], order) = ""

\* C27: a configuration without a merge store is rejected when a target has
\* imports, and is accepted when no target has imports and nothing else is
\* wrong with it.
C27_MergeStoreRequiredIffImports ==
  (Validated /\ NoMergeStore(fnArgs.c)) =>
    /\ AnyTargetHasImports => fnResult.err # ""
    /\ (~AnyTargetHasImports /\ ValidButForMergeStore) => fnResult.err = ""

\* the half of C27 about configurations with imports
C27_RejectedWithImports ==
  (Validated /\ NoMergeStore(fnArgs.c) /\ AnyTargetHasImports)
    => fnResult.err # ""

\* the role for the sync of a target has been resolved
RoleResolved == fnResult.fn = "GetRoleARN"

\* the target whose role has been resolved
ResolvedTarget == fnArgs.targets[fnResult.target]

\* C28: when the account of a target is the account the pipeline executes
\* in, the role ARN resolved for its sync is empty.
C28_SameAccountNoRole ==
  (RoleResolved /\ ResolvedTarget.accountID = fnArgs.caller)
    => fnResult.syncARN = NoARN

\* the ARN the precedence of C29 gives a target
PrecedenceARN(target) ==
  IF target.roleARN # "" THEN ExplicitARN(target.roleARN)
  ELSE IF fnArgs.aws.customRolePattern # ""
       THEN PatternARN(fnArgs.aws.customRolePattern, target.accountID)
  ELSE IF fnArgs.aws.ctEnabled THEN ControlTowerARN(fnArgs.aws, target.accountID)
  ELSE IamARN(target.accountID, "/", "OrganizationAccountAccessRole")

\* C29: for a target in another account, the ARN is the explicit role_arn,
\* else the custom pattern, else the Control Tower role, else the default
\* organizational-access role, and both resolvers give that ARN.
C29_RolePrecedence ==
  (RoleResolved /\ ResolvedTarget.accountID # fnArgs.caller) =>
    /\ fnResult.syncARN = PrecedenceARN(ResolvedTarget)
    /\ fnResult.ctxARN = fnResult.syncARN

\* with a single target that has no role_arn, with Control Tower enabled and
\* no custom pattern, the two resolvers agree on the Control Tower role
RoleResolversAgreeOnControlTower ==
  (RoleResolved /\ ResolvedTarget.accountID # fnArgs.caller
     /\ \A t \in DOMAIN fnArgs.targets : fnArgs.targets[t].roleARN = ""
     /\ fnArgs.aws.ctEnabled /\ fnArgs.aws.customRolePattern = "") =>
    /\ fnResult.syncARN = PrecedenceARN(ResolvedTarget)
    /\ fnResult.ctxARN = fnResult.syncARN

\* the discovered organization context of the run
DiscoveredOrg ==
  discoverOrganizationContext(fnArgs.caller, fnArgs.describeFails,
                              fnArgs.master, fnArgs.listedAsAdmin)

\* the configured account is not the caller's, or the context is configured
\* as management_account and the caller was discovered to be a member account
ContextMismatch ==
  /\ fnArgs.fn = "Context"
  /\ \/ fnArgs.ec.AccountID \notin {"", fnArgs.caller}
     \/ /\ fnArgs.ec.Type = ExecutionContextManagement
        /\ DiscoveredOrg.known
        /\ ~DiscoveredOrg.IsManagementAccount

\* C30: when the configured execution_context type or account does not match
\* the discovered identity, the pipeline fails at the start of the run and no
\* merge or sync is performed.
C30_MismatchIsFatal ==
  ContextMismatch => (fnResult = NoCall \/ fnResult.stage # "ran")

\* the validate command, which returns the context's error, does fail on every
\* such mismatch, and a delegated_admin context run from the management
\* account passes it with a warning
C30_CheckAWSFailsOnMismatch ==
  (fnArgs.fn = "Context" /\ fnResult # NoCall /\ fnResult.stage = "validated") =>
    /\ (fnResult.err # NoError) <=> ContextMismatch
    /\ (/\ fnArgs.ec.Type = ExecutionContextDelegated
        /\ ~ContextMismatch
        /\ DiscoveredOrg.IsManagementAccount) => fnResult.warned

\* DeleteSecret("") has returned without error and the scope was listed
DeletedAllAndListed ==
  /\ fnArgs.fn = "DopplerDelete"
  /\ fnArgs.name = ""
  /\ fnResult.stage = "listed"
  /\ fnResult.err = NoError

\* C31: after DeleteSecret with an empty name returned without error, a
\* following ListSecrets on the same scope is empty.
C31_DeleteAllEmptiesScope ==
  DeletedAllAndListed => fnResult.listed = {}

\* the scope is empty when no deletion was rejected, and what is left is
\* always made of names whose deletion was rejected
C31_LeftoversWereRejected ==
  DeletedAllAndListed => fnResult.listed \subseteq fnArgs.rejected

\* a sync job whose spec has suspend or dryRun set
ShortCircuited ==
  /\ fnArgs.fn = "shouldDryRun"
  /\ (IsSet(fnArgs.suspend) \/ IsSet(fnArgs.dryRun))

\* the status a short-circuited job is to show
ExpectedStatus == IF IsSet(fnArgs.suspend) THEN "Suspended" ELSE "DryRun"

\* C32: for a sync job with suspend or dryRun set no secret is written, and a
\* status update and an event are emitted for every short-circuited secret:
\* Suspended when suspend is set, otherwise DryRun.
C32_ShortCircuitStillEmits ==
  ShortCircuited =>
    /\ fnResult.written = {}
    /\ Len(fnResult.status) = fnResult.done
    /\ Len(fnResult.events) = fnResult.done
    /\ \A i \in 1..fnResult.done :
         /\ fnResult.status[i] = ExpectedStatus
         /\ fnResult.events[i].reason = ExpectedStatus
         /\ fnResult.events[i].sourcePath = i

\* both flags set, both backend calls failing, every secret of the job taken
C32_Witness ==
  /\ ShortCircuited
  /\ IsSet(fnArgs.suspend) /\ IsSet(fnArgs.dryRun)
  /\ fnArgs.statusFails /\ fnArgs.eventFails
  /\ fnResult.done = MaxSecrets
  /\ fnResult.logged = 2 * MaxSecrets

\* the merge jobs of target t that were triggered and wait for a worker
PendingMergeJobs(t) ==
  { k \in 1..Len(queue) : queue[k].merge /\ queue[k].target = t }

\* C33: when the merge task of a target is reported finished, every merge job
\* triggered for its imports has been taken off the queue and applied to the
\* merge store, whatever the delay of the workers.
C33_MergeFinishedMeansApplied ==
  \A t \in TargetNames :
    (<<"merge", t>> \in finished) => PendingMergeJobs(t) = {}

\* the Results the run holds at the moment: of the executing phase, of the
\* phases that returned, and of Run
HeldResults ==
  Range(slots) \cup Range(results) \cup Range(allResults) \cup Range(retResults)

\* the targets whose merge task returned an unsuccessful Result in this run
FailedMerges ==
  { t \in TargetNames :
      /\ <<"merge", t>> \in finished
      /\ \E r \in HeldResults : r.target = t /\ r.phase = "merge" /\ ~r.success }

\* C34: in a full pipeline run, the merge-store path of a target whose merge
\* failed is not consumed later in the run: no target is merged from it and
\* the target is not synced.
C34_FailedMergeNotConsumed ==
  opts.operation = "pipeline" =>
    \A t \in FailedMerges :
      /\ <<"sync", t>> \notin started
      /\ \A d \in TargetNames : <<d, t>> \notin mergeWork

\* with continue_on_error off the run stops after the level of the failed
\* merge, and nothing consumes the path
C34_AbortingRunConsumesNothing ==
  (opts.operation = "pipeline" /\ ~opts.continueOnError) =>
    \A t \in FailedMerges :
      /\ <<"sync", t>> \notin started
      /\ \A d \in TargetNames : <<d, t>> \notin mergeWork

\* C35: Run returns a non-nil error whenever a Result of the slice it returns
\* is unsuccessful, a merge failure followed by a successful sync phase
\* included.
C35_ErrorIffAnyFailure ==
  pc = "returned" =>
    ((\E k \in 1..Len(retResults) : ~retResults[k].success) => retErr # NoError)

\* the merge and sync operations on their own do report every failure
C35_SinglePhaseReportsFailure ==
  (pc = "returned" /\ opts.operation # "pipeline"
     /\ \E k \in 1..Len(retResults) : ~retResults[k].success)
    => retErr # NoError

\* the requested names that are not configured targets
UnknownRequested ==
  { n \in Range(fnArgs.requested) : n \notin DOMAIN fnArgs.imports }

\* the name has a failure Result in the phase
ReportedFailed(n, ph) ==
  \E k \in 1..Len(fnResult.results) :
    /\ fnResult.results[k].target = n
    /\ fnResult.results[k].phase = ph
    /\ ~fnResult.results[k].success

\* C36: for any list of requested names Run does not panic, and once it has
\* returned every requested name that is not a configured target has a
\* failure Result in every phase that was executed.
C36_UnknownNamesReported ==
  fnArgs.fn = "Request" =>
    /\ fnResult.stage # "panicked"
    /\ fnResult.stage = "returned" =>
         \A n \in UnknownRequested : \A ph \in fnResult.phases :
           ReportedFailed(n, ph)

\* a run that did not panic reports every such name as a failure of the sync
\* phase, and a list of configured targets never panics
C36_SyncPhaseReportsUnknown ==
  fnArgs.fn = "Request" =>
    /\ (fnResult.stage = "returned" /\ "sync" \in fnResult.phases) =>
         \A n \in UnknownRequested : ReportedFailed(n, "sync")
    /\ UnknownRequested = {} => fnResult.stage # "panicked"
    /\ fnResult.stage = "panicked" =>
         \E n \in Range(fnArgs.requested) : n \notin NodesOf(fnArgs.imports)

\* a Run is executing and its own context has not been cancelled
RunUnderLiveContext ==
  /\ fnArgs.fn = "Processor"
  /\ fnResult.running
  /\ fnResult.ctx \notin fnResult.cancelled

\* C37: the event processor is started exactly once per Pipeline, and every
\* Run whose context is not cancelled has a live processor for its whole
\* duration, a Run with a fresh context after an earlier Run's context was
\* cancelled included.
C37_ProcessorLiveForEveryRun ==
  fnArgs.fn = "Processor" =>
    /\ fnResult.started <= 1
    /\ RunUnderLiveContext => ProcessorLive(fnResult)

\* the processor is started exactly once, by the first Run, and is live for
\* every Run for as long as the context of the first Run is not cancelled
C37_StartedOnceByFirstRun ==
  fnArgs.fn = "Processor" =>
    /\ fnResult.started = (IF fnResult.run > 0 THEN 1 ELSE 0)
    /\ fnResult.initialized <=> fnResult.run > 0
    /\ (fnResult.run > 0 /\ fnResult.procCtx \notin fnResult.cancelled)
         => ProcessorLive(fnResult)

\* the accounts the dynamic target is to expand to: found, not excluded
AccountsToExpand ==
  { i \in FoundIDs : ~isExcluded(i, fnArgs.dt.exclude) }

\* C38: discovery loses no account through a name clash: the suffix is
\* computed for every account ID, no target discovered earlier is
\* overwritten, and distinct account IDs end under distinct target names.
C38_NoAccountLostToNameClash ==
  (Discovered /\ AllDiscoverersSucceeded) =>
    /\ ~fnResult.panic
    /\ \A n \in DOMAIN fnArgs.prior :
         n \in DOMAIN fnResult.targets /\ fnResult.targets[n] = fnArgs.prior[n]
    /\ Cardinality(ExpandedNames) = Cardinality(AccountsToExpand)

\* when the names of the accounts do not clash, nothing is lost
C38_NoClashNoLoss ==
  (Discovered /\ AllDiscoverersSucceeded /\ fnArgs.prior = EmptyMap
     /\ Cardinality(AccountsToExpand) <= 1) =>
    /\ ~fnResult.panic
    /\ Cardinality(ExpandedNames) = Cardinality(AccountsToExpand)

\* the orders in which a range over Config.Targets can deliver the targets
TargetOrders ==
  { o \in DistinctSeqs(DOMAIN fnArgs.targets, 2) :
      Range(o) = DOMAIN fnArgs.targets }

\* C39: the role ARN used to sync a target comes from that target's own
\* configuration: its own role_arn when it has one, never the role_arn of
\* another target of the same account, and the same ARN for every order of
\* iteration over the targets.
C39_RoleFromOwnConfiguration ==
  RoleResolved =>
    /\ ResolvedTarget.roleARN = "" => fnResult.syncARN.kind # "explicit"
    /\ ResolvedTarget.roleARN # ""
         => fnResult.syncARN = ExplicitARN(ResolvedTarget.roleARN)
    /\ \A o \in TargetOrders :
         Config_GetRoleARN(fnArgs.targets, fnArgs.aws, o,
                           ResolvedTarget.accountID) = fnResult.syncARN

\* when no other target shares the account of the target, the ARN is the
\* target's own and does not depend on the order
C39_OwnRoleWhenAccountNotShared ==
  (RoleResolved
     /\ \A u \in DOMAIN fnArgs.targets \ {fnResult.target} :
          fnArgs.targets[u].accountID # ResolvedTarget.accountID) =>
    /\ ResolvedTarget.roleARN = "" => fnResult.syncARN.kind # "explicit"
    /\ ResolvedTarget.roleARN # ""
         => fnResult.syncARN = ExplicitARN(ResolvedTarget.roleARN)
    /\ \A o \in TargetOrders :
         Config_GetRoleARN(fnArgs.targets, fnArgs.aws, o,
                           ResolvedTarget.accountID) = fnResult.syncARN

\* executeParallel returns in this step
ReturnsNow == pc = "exec" /\ pc' # "exec"

\* the result slice holds, at the index of each input target, a Result with
\* that target's name
OneResultPerTarget ==
  /\ Len(slots) = Len(epTargets)
  /\ \A k \in 1..Len(epTargets) : slots[k].target = epTargets[k]

\* C40: executeParallel always returns, cancelled or not, when every task
\* function returns; when it returns every acquired slot of the semaphore
\* has been released and the output holds one Result per input target, at
\* that target's index and with that target's name.
C40_ExecuteParallelReturns ==
  /\ [] (pc = "exec" => <> (pc # "exec"))
  /\ [][ ReturnsNow => (sem = 0 /\ OneResultPerTarget) ]_vars

\* executeParallel has returned from a cancelled run in which one target was
\* skipped and another was run, with two targets competing for one slot
C40_Witness ==
  /\ pc = "returned"
  /\ ctxDone
  /\ Len(epTargets) >= 2
  /\ semCap = 1
  /\ sem = 0
  /\ \E j, k \in 1..Len(slots) :
       /\ slots[j] = SkippedResult(epTargets[j])
       /\ slots[k].phase # ""

====
